---- MODULE Spec2Model ----
(***************************************************************************)
(* Model of the conversational agent runtime of mini_timebot:             *)
(*   src/src/agent.py      graph nodes, routing, tool node, task registry  *)
(*   src/src/mainagent.py  /ask, /ask_stream, /cancel, /system_trigger     *)
(*                                                                         *)
(* The specifications defined are:                                         *)
(*   Spec      the session and task manager: request handlers, streaming   *)
(*             workers, the task lock, the active-task map and the         *)
(*             checkpointed threads, one step per event-loop resumption.   *)
(*   ToolSpec  the routing function and the tool node applied to every     *)
(*             assistant message and enabled set within the bounds.        *)
(*   ApiSpec   the agent's HTTP boundary: credentials, thread ids, task    *)
(*             keys, bridge offsets, session history and deletion, for     *)
(*             user and session ids that are arbitrary strings.            *)
(*   OasisSpec the discussion forum of src/oasis: one topic from POST      *)
(*             /topics to its terminal status, the engine's rounds, the    *)
(*             experts' posts and votes, and server shutdown.              *)
(*   RoundSpec the engine's loop of src/oasis/engine.py over a schedule:   *)
(*             iterations, steps in plan order, the consensus check.       *)
(*   ExpertStoreSpec  the per-user custom experts of src/oasis/experts.py. *)
(*   SseSpec   one streamed chunk from the server's escape to the page's   *)
(*             reader (mainagent.py, front.py).                            *)
(*   CronSpec  the scheduler of src/src/time.py and the requests its       *)
(*             firings send to /system_trigger.                            *)
(*   CallModelSpec  the chatbot node: sanitization, multimodal stripping   *)
(*             and the tool-state notice of each model call.               *)
(*   InjectSpec  a tool-call from the tool node to its provider.           *)
(*   ExpertCallSpec  one expert's participation through a bot session:     *)
(*             the request, the reply's parsing and the posts it makes.    *)
(*   BridgeSpec  /oasis_ask: what of a forum's history each call gives to  *)
(*             the agent, and the offsets kept per session.                *)
(*   StreamSpec  the SSE stream of a topic against the engine's writes.    *)
(***************************************************************************)
EXTENDS Naturals, Integers, Sequences, FiniteSets, TLC

(***************************************************************************)
(* Bounds                                                                  *)
(***************************************************************************)
\* number of requests (handler / turn slots) in one behaviour of Spec
MaxProcs == 2
\* model calls per turn; the last permitted call returns no tool-calls
MaxModelCalls == 2
\* tool-calls per assistant message in ToolSpec
MaxCalls == 2

\* requests received by the agent's HTTP boundary in ApiSpec
MaxRequests == 3

\* length of the history list carried by an /oasis/ask request
MaxHistory == 1

\* largest max_rounds of a topic in OasisSpec
MaxRounds == 2

\* largest n of get_top_posts(n) examined
MaxTopK == 3

\* largest max_rounds of a topic in RoundSpec
MaxPlanRounds == 3

\* length of the content of a streamed chunk in SseSpec
MaxPayload == 3

\* cron jobs created in one behaviour of CronSpec
MaxJobs == 2

\* turns started in one behaviour of CallModelSpec
MaxTurns == 3

\* invocations of one expert in one behaviour of ExpertCallSpec
MaxExpertCalls == 2

\* entries of a forum's history, and /oasis/ask calls, in BridgeSpec
MaxBridgeHistory == 2

MaxBridgeCalls == 3

\* posts published to the topic of StreamSpec
MaxStreamPosts == 3

\* requests the agent answers in one behaviour of CronSpec
MaxTriggers == 3

Procs == 1 .. MaxProcs

(***************************************************************************)
(* Identities.  thread_id and task_key are both f"{user_id}#{session_id}". *)
(***************************************************************************)
Requesters == { <<"u1", "s1">>, <<"u1", "s2">> }

ThreadId(user_id, session_id) == user_id \o "#" \o session_id

ThreadIds == { ThreadId(r[1], r[2]) : r \in Requesters }

(***************************************************************************)
(* Tools.  The registry is fixed at startup; any other name is external.   *)
(***************************************************************************)
internal_tool_names == {"list_files", "run_command"}

ExternalNames == {"ext_tool"}

ToolNames == internal_tool_names \cup ExternalNames

\* enabled_tools of a request: None (no restriction) or a list of names
NoRestriction == [restricted |-> FALSE, names |-> {}]

Restrict(S) == [restricted |-> TRUE, names |-> S]

EnabledChoices == {NoRestriction} \cup { Restrict(S) : S \in SUBSET internal_tool_names }

(***************************************************************************)
(* Messages                                                                *)
(***************************************************************************)
HumanMessage(p) ==
    [kind |-> "human", calls |-> <<>>, text |-> <<>>, id |-> 0, name |-> "", note |-> "", turn |-> p]

AIMessage(calls, text, note, p) ==
    [kind |-> "ai", calls |-> calls, text |-> text, id |-> 0, name |-> "", note |-> note, turn |-> p]

ToolMessage(id, name, note, p) ==
    [kind |-> "tool", calls |-> <<>>, text |-> <<>>, id |-> id, name |-> name, note |-> note, turn |-> p]

\* hasattr(m, "tool_calls") and m.tool_calls
HasToolCalls(m) == m.kind = "ai" /\ m.calls # <<>>

Last(s) == s[Len(s)]

\* all sequences over S of length at most n
SeqsUpTo(S, n) == UNION { [1 .. k -> S] : k \in 0 .. n }

\* variant: route to the tool node as soon as one call is internal
should_continue_any_internal(last_msg) ==
    IF ~HasToolCalls(last_msg) THEN "end"
    ELSE IF \E i \in 1 .. Len(last_msg.calls) : last_msg.calls[i].name \in internal_tool_names
         THEN "tools"
         ELSE "end"

(***************************************************************************)
(* agent.py: conditional edge after the chatbot node                       *)
(***************************************************************************)
should_continue(last_msg) ==
    IF ~HasToolCalls(last_msg) THEN "end"
    ELSE IF \E i \in 1 .. Len(last_msg.calls) : last_msg.calls[i].name \notin internal_tool_names
         THEN "end"
         ELSE "tools"

(***************************************************************************)
(* agent.py: _call_model, the tools bound to the model                     *)
(***************************************************************************)
filtered_tools(enabled) ==
    IF enabled.restricted
    THEN { t \in internal_tool_names : t \in enabled.names }
    ELSE internal_tool_names

(***************************************************************************)
(* agent.py: UserAwareToolNode.__call__                                    *)
(***************************************************************************)
\* variant: the call is checked against the registry, not the enabled set
IsBlocked_registry(tc, enabled) == enabled.restricted /\ tc.name \notin internal_tool_names

\* variant: "if enabled_names:" in place of "is not None", so that an empty
\* list counts as no restriction
IsBlocked_truthy(tc, enabled) ==
    enabled.restricted /\ enabled.names # {} /\ tc.name \notin enabled.names

IsBlocked(tc, enabled) == enabled.restricted /\ tc.name \notin enabled.names

blocked_calls(calls, enabled) == SelectSeq(calls, LAMBDA tc : IsBlocked(tc, enabled))

allowed_calls(calls, enabled) == SelectSeq(calls, LAMBDA tc : ~IsBlocked(tc, enabled))

\* the prebuilt ToolNode runs the calls it is given and returns one
\* ToolMessage per call, in the order of the calls
tool_node_ainvoke(calls, p) ==
    [i \in 1 .. Len(calls) |-> ToolMessage(calls[i].id, calls[i].name, "result", p)]

disabled_messages(calls, p) ==
    [i \in 1 .. Len(calls) |-> ToolMessage(calls[i].id, calls[i].name, "disabled", p)]

\* variant: the results of the dispatched calls replace result_messages
\* instead of extending it
UserAwareToolNode_overwrite(last_message, enabled, p) ==
    IF ~HasToolCalls(last_message) THEN [dispatched |-> <<>>, messages |-> <<>>]
    ELSE [dispatched |-> allowed_calls(last_message.calls, enabled),
          messages   |-> IF allowed_calls(last_message.calls, enabled) # <<>>
                         THEN tool_node_ainvoke(allowed_calls(last_message.calls, enabled), p)
                         ELSE disabled_messages(blocked_calls(last_message.calls, enabled), p)]

\* dispatched: the calls handed to self.tool_node.ainvoke (none when
\* allowed_calls is empty); messages: the returned result_messages
UserAwareToolNode(last_message, enabled, p) ==
    IF ~HasToolCalls(last_message) THEN [dispatched |-> <<>>, messages |-> <<>>]
    ELSE [dispatched |-> allowed_calls(last_message.calls, enabled),
          messages   |-> disabled_messages(blocked_calls(last_message.calls, enabled), p)
                         \o tool_node_ainvoke(allowed_calls(last_message.calls, enabled), p)]

(***************************************************************************)
(* mainagent.py: users, credentials and the keys derived from a request.   *)
(* user_id and session_id are free strings; the ids below contain the      *)
(* separator '#' and the LIKE wildcard '_'.                                *)
(***************************************************************************)
ApiUsers == {"a", "a#b", "_"}

ApiSessions == {"c", "b#c"}

ApiPairs == ApiUsers \X ApiSessions

\* hashlib.sha256(...).hexdigest(): equal digests only for equal inputs
sha256(s) == <<"sha256", s>>

\* load_users(): the content of users.json
load_users == [u \in ApiUsers |-> IF u = "a#b" THEN sha256("p2") ELSE sha256("p1")]

Passwords == {"p1", "p2"}

verify_password_known_user(username, password) == username \in DOMAIN load_users

verify_password(username, password) ==
    IF username \notin DOMAIN load_users THEN FALSE
    ELSE sha256(password) = load_users[username]

INTERNAL_TOKEN == "tok"

\* the X-Internal-Token header; "" stands for a missing header as well
Tokens == {"tok", "bad", ""}

\* TRUE when the call returns, FALSE when it raises 403
verify_internal_token(token) == ~(token = "" \/ token # INTERNAL_TOKEN)

\* oasis_ask: oasis_thread_id = f"{req.user_id}#oasis_{session_id}"
OasisThreadId(user_id, session_id) == user_id \o "#oasis_" \o session_id

\* oasis_ask: the key of oasis_session_offsets is the bare session_id
OffsetKey(user_id, session_id) == session_id

ApiThreadIds ==
    { ThreadId(r[1], r[2]) : r \in ApiPairs } \cup { OasisThreadId(r[1], r[2]) : r \in ApiPairs }

OffsetKeys == ApiSessions \cup ApiThreadIds

(***************************************************************************)
(* SQLite LIKE as used by /sessions and /delete_session: '%' matches any   *)
(* run of characters, '_' any single character, letters match without      *)
(* regard to ASCII case.                                                   *)
(***************************************************************************)
ascii_lower(c) ==
    IF c = "A" THEN "a" ELSE IF c = "B" THEN "b" ELSE IF c = "C" THEN "c" ELSE c

RECURSIVE like(_, _)
like(pattern, s) ==
    IF pattern = "" THEN s = ""
    ELSE LET c == SubSeq(pattern, 1, 1)
             rest == SubSeq(pattern, 2, Len(pattern))
         IN  IF c = "%"
             THEN like(rest, s) \/ (s # "" /\ like(pattern, SubSeq(s, 2, Len(s))))
             ELSE IF s = "" THEN FALSE
             ELSE IF c = "_" THEN like(rest, SubSeq(s, 2, Len(s)))
             ELSE /\ ascii_lower(c) = ascii_lower(SubSeq(s, 1, 1))
                  /\ like(rest, SubSeq(s, 2, Len(s)))

\* str.startswith
startswith(s, prefix) == Len(s) >= Len(prefix) /\ SubSeq(s, 1, Len(prefix)) = prefix

(***************************************************************************)
(* oasis/forum.py: Post and DiscussionForum                                *)
(***************************************************************************)
\* the experts selected for the topic, by name
Experts == {"e1", "e2"}

NoVoters == [v \in {} |-> ""]

\* Post(id, author, content, reply_to); reply_to 0 stands for None
Post(id, author, content, reply_to) ==
    [id |-> id, author |-> author, content |-> content, reply_to |-> reply_to,
     upvotes |-> 0, downvotes |-> 0, voters |-> NoVoters]

\* DiscussionForum.__init__; conclusion "None" stands for None
DiscussionForum(max_rounds) ==
    [max_rounds |-> max_rounds, current_round |-> 0, posts |-> <<>>,
     conclusion |-> "None", status |-> "pending", counter |-> 0]

publish_keep_counter(forum, author, content, reply_to) ==
    [forum EXCEPT !.posts = Append(@, Post(forum.counter + 1, author, content, reply_to))]

publish(forum, author, content, reply_to) ==
    [forum EXCEPT !.counter = @ + 1,
                  !.posts = Append(@, Post(forum.counter + 1, author, content, reply_to))]

\* _find: index of the first post with that id, 0 for None
find(posts, post_id) ==
    IF \E i \in 1 .. Len(posts) : posts[i].id = post_id
    THEN CHOOSE i \in 1 .. Len(posts) :
            /\ posts[i].id = post_id
            /\ \A j \in 1 .. i - 1 : posts[j].id # post_id
    ELSE 0

vote_own_post(forum, voter, post_id, direction) ==
    LET i == find(forum.posts, post_id)
    IN  IF i # 0 /\ voter \notin DOMAIN forum.posts[i].voters
        THEN [forum EXCEPT !.posts[i].voters = (voter :> direction) @@ @,
                           !.posts[i].upvotes = IF direction = "up" THEN @ + 1 ELSE @,
                           !.posts[i].downvotes = IF direction = "up" THEN @ ELSE @ + 1]
        ELSE forum

vote_flip(forum, voter, post_id, direction) ==
    LET i == find(forum.posts, post_id)
    IN  IF i # 0 /\ voter # forum.posts[i].author
        THEN [forum EXCEPT !.posts[i].voters = (voter :> direction) @@ @,
                           !.posts[i].upvotes = IF direction = "up" THEN @ + 1 ELSE @,
                           !.posts[i].downvotes = IF direction = "up" THEN @ ELSE @ + 1]
        ELSE forum

vote(forum, voter, post_id, direction) ==
    LET i == find(forum.posts, post_id)
    IN  IF i # 0 /\ voter # forum.posts[i].author /\ voter \notin DOMAIN forum.posts[i].voters
        THEN [forum EXCEPT !.posts[i].voters = (voter :> direction) @@ @,
                           !.posts[i].upvotes = IF direction = "up" THEN @ + 1 ELSE @,
                           !.posts[i].downvotes = IF direction = "up" THEN @ ELSE @ + 1]
        ELSE forum

browse(forum, viewer, exclude_self) ==
    IF exclude_self /\ viewer # ""
    THEN SelectSeq(forum.posts, LAMBDA p : p.author # viewer)
    ELSE forum.posts

score(p) == p.upvotes - p.downvotes

RemoveAt(s, i) == SubSeq(s, 1, i - 1) \o SubSeq(s, i + 1, Len(s))

\* the posts of highest key, in list order
BestIndexes(s) == {i \in 1 .. Len(s) : \A j \in 1 .. Len(s) : score(s[j]) <= score(s[i])}

MinOf(S) == CHOOSE x \in S : \A y \in S : x <= y

MaxOf(S) == CHOOSE x \in S : \A y \in S : y <= x

\* sorted(posts, key) followed by list.reverse(): equal keys in reverse order
RECURSIVE sorted_then_reversed(_)
sorted_then_reversed(s) ==
    IF s = <<>> THEN <<>>
    ELSE LET i == MaxOf(BestIndexes(s))
         IN  <<s[i]>> \o sorted_then_reversed(RemoveAt(s, i))

\* sorted(posts, key=..., reverse=True): stable, equal keys keep list order
RECURSIVE sorted_reverse(_)
sorted_reverse(s) ==
    IF s = <<>> THEN <<>>
    ELSE LET i == MinOf(BestIndexes(s))
         IN  <<s[i]>> \o sorted_reverse(RemoveAt(s, i))

get_top_posts_unstable(forum, n) ==
    SubSeq(sorted_then_reversed(forum.posts), 1, IF n < Len(forum.posts) THEN n ELSE Len(forum.posts))

get_top_posts(forum, n) ==
    SubSeq(sorted_reverse(forum.posts), 1, IF n < Len(forum.posts) THEN n ELSE Len(forum.posts))

(***************************************************************************)
(* oasis/experts.py: the built-in experts and the per-user custom experts  *)
(***************************************************************************)
\* str.replace(old, new)
RECURSIVE replace(_, _, _)
replace(s, old, new) ==
    IF Len(s) < Len(old) THEN s
    ELSE IF SubSeq(s, 1, Len(old)) = old
         THEN new \o replace(SubSeq(s, Len(old) + 1, Len(s)), old, new)
         ELSE SubSeq(s, 1, 1) \o replace(SubSeq(s, 2, Len(s)), old, new)

\* str.strip() for the blank
RECURSIVE strip(_)
strip(s) ==
    IF s = "" THEN s
    ELSE IF SubSeq(s, 1, 1) = " " THEN strip(SubSeq(s, 2, Len(s)))
    ELSE IF SubSeq(s, Len(s), Len(s)) = " " THEN strip(SubSeq(s, 1, Len(s) - 1))
    ELSE s

\* the public experts, loaded once at import
EXPERT_CONFIGS ==
    << [name |-> "creator", tag |-> "creative", persona |-> "p"],
       [name |-> "critic", tag |-> "critical", persona |-> "p"] >>

StoreUsers == {"a/b", "a_b", "u"}

\* _user_experts_path: the file of a user's custom experts
user_experts_path(user_id) ==
    replace(replace(replace(user_id, "/", "_"), "\\", "_"), "..", "_")

StorePaths == { user_experts_path(u) : u \in StoreUsers }

\* the fields of UserExpertRequest after model_dump()
ExpertData == [name : {"n", ""}, tag : {"x", " x", "y", "creative", ""}, persona : {"p", " "}]

\* _validate_expert; ok FALSE stands for ValueError
validate_expert(data) ==
    [ok |-> strip(data.name) # "" /\ strip(data.tag) # "" /\ strip(data.persona) # "",
     expert |-> [name |-> strip(data.name), tag |-> strip(data.tag),
                 persona |-> strip(data.persona)]]

has_tag(list, tag) == \E i \in 1 .. Len(list) : list[i].tag = tag

first_with_tag(list, tag) ==
    CHOOSE i \in 1 .. Len(list) : list[i].tag = tag /\ \A j \in 1 .. i - 1 : list[j].tag # tag

\* variant: the tag is not checked against the public experts
add_user_expert_own_tags_only(files, user_id, data) ==
    LET v == validate_expert(data)
        path == user_experts_path(user_id)
    IN  IF ~v.ok \/ has_tag(files[path], v.expert.tag)
        THEN [ok |-> FALSE, files |-> files]
        ELSE [ok |-> TRUE, files |-> [files EXCEPT ![path] = Append(@, v.expert)]]

\* add_user_expert; ok FALSE stands for ValueError
add_user_expert(files, user_id, data) ==
    LET v == validate_expert(data)
        path == user_experts_path(user_id)
    IN  IF ~v.ok \/ has_tag(files[path], v.expert.tag) \/ has_tag(EXPERT_CONFIGS, v.expert.tag)
        THEN [ok |-> FALSE, files |-> files]
        ELSE [ok |-> TRUE, files |-> [files EXCEPT ![path] = Append(@, v.expert)]]

\* update_user_expert: {**e, **data, "tag": tag}, every field of data being set
update_user_expert(files, user_id, tag, data) ==
    LET path == user_experts_path(user_id)
        v == validate_expert([data EXCEPT !.tag = tag])
    IN  IF ~has_tag(files[path], tag) \/ ~v.ok
        THEN [ok |-> FALSE, files |-> files]
        ELSE [ok |-> TRUE,
              files |-> [files EXCEPT ![path][first_with_tag(files[path], tag)] = v.expert]]

\* delete_user_expert
delete_user_expert(files, user_id, tag) ==
    LET path == user_experts_path(user_id)
    IN  IF ~has_tag(files[path], tag)
        THEN [ok |-> FALSE, files |-> files]
        ELSE [ok |-> TRUE,
              files |-> [files EXCEPT ![path] = RemoveAt(@, first_with_tag(files[path], tag))]]

\* get_all_experts
get_all_experts(files, user_id) ==
    EXPERT_CONFIGS \o (IF user_id # "" THEN files[user_experts_path(user_id)] ELSE <<>>)

(***************************************************************************)
(* The SSE payload of /ask_stream: mainagent.py escapes, the page served   *)
(* by front.py unescapes.  In the strings below "\\" is one backslash and  *)
(* "\n" is one newline.                                                    *)
(***************************************************************************)
PayloadChars == {"\\", "n", "\n", "a"}

RECURSIVE StringsUpTo(_)
StringsUpTo(k) ==
    IF k = 0 THEN {""}
    ELSE StringsUpTo(k - 1) \cup { c \o t : c \in PayloadChars, t \in StringsUpTo(k - 1) }

\* chunk.content of an on_chat_model_stream event; empty content is skipped
Payloads == StringsUpTo(MaxPayload) \ {""}

\* chunk.content.replace("\\", "\\\\").replace("\n", "\\n")
sse_escape(content) == replace(replace(content, "\\", "\\\\"), "\n", "\\n")

\* f"data: {text}\n\n"
sse_frame(text) == "data: " \o text \o "\n\n"

\* buffer.split('\n'): the text before the first newline
RECURSIVE first_line(_)
first_line(buffer) ==
    IF buffer = "" \/ SubSeq(buffer, 1, 1) = "\n" THEN ""
    ELSE SubSeq(buffer, 1, 1) \o first_line(SubSeq(buffer, 2, Len(buffer)))

\* payload.replace(/\\n/g, '\n').replace(/\\\\/g, '\\') as the browser runs it
sse_unescape(payload) == replace(replace(payload, "\\n", "\n"), "\\\\", "\\")

\* the reader loop for one line: the text appended to fullText
sse_read_line(line) ==
    IF Len(line) < 6 \/ SubSeq(line, 1, 6) # "data: " THEN ""
    ELSE IF SubSeq(line, 7, Len(line)) = "[DONE]" THEN ""
    ELSE sse_unescape(SubSeq(line, 7, Len(line)))

(***************************************************************************)
(* agent.py: _call_model, what it hands to the model                       *)
(***************************************************************************)
\* message content: a string, or a list of content parts given by the
\* types of the parts
TextContent(t) == [list |-> FALSE, parts |-> <<>>, text |-> t]

ListContent(parts) == [list |-> TRUE, parts |-> parts, text |-> ""]

CmMessage(kind, content, calls, id) ==
    [kind |-> kind, content |-> content, calls |-> calls, id |-> id]

\* _build_human_message: text alone, text with an image, text with audio
HumanContents ==
    { TextContent("hi"),
      ListContent(<<"text", "image_url">>),
      ListContent(<<"text", "input_audio">>) }

\* frozenset(enabled_names) if enabled_names is not None else frozenset(all_names)
current_enabled(enabled) ==
    IF enabled.restricted THEN enabled.names ELSE internal_tool_names

\* the cached last tool state of a user: None, or a frozenset of names
NoToolState == [known |-> FALSE, names |-> {}]

ToolState(names) == [known |-> TRUE, names |-> names]

\* variant: the notice is built whenever the request restricts the tools
tool_status_notice_restricted(last_state, enabled) == enabled.restricted

\* whether tool_status_prompt is built
tool_status_notice(last_state, enabled) ==
    IF last_state.known
    THEN current_enabled(enabled) # last_state.names
    ELSE enabled.restricted /\ internal_tool_names \ current_enabled(enabled) # {}

\* _sanitize_messages: the loop from the end of the list
RECURSIVE sanitize_loop(_, _, _)
sanitize_loop(clean, answered_ids, external_tool_names) ==
    IF clean = <<>> THEN clean
    ELSE LET last == clean[Len(clean)]
             unanswered == SelectSeq(last.calls, LAMBDA tc : tc.id \notin answered_ids)
         IN  IF last.kind = "ai" /\ last.calls # <<>> /\ unanswered # <<>>
             THEN IF /\ \A j \in 1 .. Len(unanswered) :
                           unanswered[j].name \in external_tool_names
                     /\ external_tool_names # {}
                  THEN clean
                  ELSE sanitize_loop(SubSeq(clean, 1, Len(clean) - 1), answered_ids,
                                     external_tool_names)
             ELSE clean

\* _sanitize_messages
sanitize_messages(messages, external_tool_names) ==
    sanitize_loop(messages,
                  { messages[j].id : j \in { n \in 1 .. Len(messages) : messages[n].kind = "tool" } },
                  external_tool_names)

\* the text kept for one content part; "" for a part that is dropped
part_text(ptype) ==
    IF ptype = "text" THEN "hi"
    ELSE IF ptype = "file" THEN "[file]"
    ELSE IF ptype = "image_url" THEN "[image]"
    ELSE ""

\* "\n".join(t for t in text_parts if t)
RECURSIVE join_parts(_)
join_parts(parts) ==
    IF parts = <<>> THEN ""
    ELSE LET t == part_text(Head(parts))
             rest == join_parts(Tail(parts))
         IN  IF t = "" THEN rest ELSE IF rest = "" THEN t ELSE t \o "\n" \o rest

\* _strip_multimodal_parts
strip_multimodal_parts(messages) ==
    [j \in 1 .. Len(messages) |->
        IF messages[j].kind = "human" /\ messages[j].content.list
        THEN CmMessage("human",
                       TextContent(IF join_parts(messages[j].content.parts) = ""
                                   THEN "(empty)" ELSE join_parts(messages[j].content.parts)),
                       <<>>, 0)
        ELSE messages[j]]

\* the last message with the notice in front of its content: always a
\* HumanMessage
augmented_msg(last_msg) ==
    CmMessage("human",
              IF last_msg.content.list
              THEN ListContent(<<"notice">> \o last_msg.content.parts)
              ELSE TextContent("notice" \o last_msg.content.text),
              <<>>, 0)

\* "if len(history_messages) > 1: strip(history[:-1]) + [history[-1]]"
strip_but_last(history) ==
    IF Len(history) > 1
    THEN Append(strip_multimodal_parts(SubSeq(history, 1, Len(history) - 1)),
                history[Len(history)])
    ELSE history

\* input_messages of _call_model without the SystemMessage at its head
input_messages(messages, is_system, notice) ==
    LET stripped == strip_but_last(sanitize_messages(messages, {}))
        n == Len(stripped)
        wrapped == IF is_system /\ n >= 1 /\ stripped[n].kind = "human"
                   THEN [stripped EXCEPT ![n] =
                            CmMessage("human", TextContent("trigger:" \o stripped[n].content.text),
                                      <<>>, 0)]
                   ELSE stripped
    IN  IF notice /\ n >= 1
        THEN [wrapped EXCEPT ![n] = augmented_msg(wrapped[n])]
        ELSE wrapped

(***************************************************************************)
(* State                                                                   *)
(***************************************************************************)
VARIABLES
    st_forum,       \* StreamSpec: the forum of the streamed topic
    st_gen,         \* StreamSpec: event_generator's position and locals
    st_out,         \* StreamSpec: the events sent so far
    br_offsets,     \* BridgeSpec: oasis_session_offsets (0: no entry)
    br_threads,     \* BridgeSpec: the history entries each bridge thread was given
    br_forums,      \* BridgeSpec: the history each external forum holds
    br_call,        \* BridgeSpec: the /oasis/ask call in progress
    br_last,        \* BridgeSpec: the /oasis/ask call that ended last
    br_fresh,       \* BridgeSpec: sessions deleted and not asked since
    br_count,       \* BridgeSpec: /oasis/ask calls so far
    xc_backend,     \* ExpertCallSpec: "none", "direct_llm" or "bot_session"
    xc_forum,       \* ExpertCallSpec: the forum of the topic
    xc_experts,     \* ExpertCallSpec: the expert objects and their calls in flight
    xc_threads,     \* ExpertCallSpec: what each expert's agent thread holds
    xc_last,        \* ExpertCallSpec: the invocation that ended last
    inject,         \* InjectSpec: one tool-call on its way to its provider
    cm_messages,    \* CallModelSpec: state["messages"] of each user's thread
    cm_turn,        \* CallModelSpec: the graph run in progress
    cm_input,       \* CallModelSpec: what the latest model call was given
    cm_cache,       \* CallModelSpec: _user_last_tool_state
    cm_prev,        \* CallModelSpec: the enabled set of each user's previous model call
    cm_count,       \* CallModelSpec: turns started so far
    cron_jobs,      \* CronSpec: the scheduler's jobs, task_id -> job
    cron_http,      \* CronSpec: the request to /system_trigger in flight or answered
    cron_threads,   \* CronSpec: the agent's threads, thread_id -> messages
    cron_count,     \* CronSpec: jobs created and requests answered so far
    sse,            \* SseSpec: a chunk, its frame on the wire, the text shown
    expert_files,   \* ExpertStoreSpec: path -> the list saved in the user's JSON file
    expert_op,      \* ExpertStoreSpec: the latest operation and its outcome
    round_forum,    \* RoundSpec: the forum of the topic
    round_engine,   \* RoundSpec: the engine's schedule and its place in the loops
    round_experts,  \* RoundSpec: the participate() calls of the running step
    round_tags,     \* RoundSpec: for each post, the round and step that published it
    discussions,    \* OasisSpec: server.discussions, topic_id -> forum
    engine,         \* OasisSpec: the engine task of the topic
    experts,        \* OasisSpec: the experts' participate() calls of a round
    server,         \* OasisSpec: "up", "shutdown" (lifespan exit ran), "stopped"
    store,          \* ApiSpec: checkpoint tables, thread_id -> latest message list
    api_tasks,      \* ApiSpec: _active_tasks, task_key -> request number (0: no entry)
    oasis_session_offsets,  \* ApiSpec: bridge read offsets (0: no entry)
    turns,          \* ApiSpec: graph runs started by the requests
    nreq,           \* ApiSpec: number of requests received
    last_req,       \* ApiSpec: the latest request and its response
    deleted,        \* ApiSpec: pairs deleted with no turn submitted since
    threads,        \* checkpoint store: thread_id -> latest message list
    active_tasks,   \* MiniTimeAgent._active_tasks: task_key -> proc (0: no entry)
    task_lock,      \* MiniTimeAgent._task_lock: the holder (0: unlocked)
    lock_waiters,   \* coroutines suspended in _task_lock.acquire(), FIFO
    procs,          \* request handlers, turns and streaming workers
    tn_pc,          \* ToolSpec: position of the single routed message
    tn_msg,         \* ToolSpec: the assistant message returned by the model
    tn_enabled,     \* ToolSpec: enabled_tools of the turn
    tn_bound,       \* ToolSpec: registry tools bound to the model
    tn_dispatched,  \* ToolSpec: calls handed to the provider
    tn_results      \* ToolSpec: result_messages of the tool node

session_vars == <<threads, active_tasks, task_lock, lock_waiters, procs>>

tool_vars == <<tn_pc, tn_msg, tn_enabled, tn_bound, tn_dispatched, tn_results>>

api_vars == <<store, api_tasks, oasis_session_offsets, turns, nreq, last_req, deleted>>

oasis_vars == <<discussions, engine, experts, server>>

round_vars == <<round_forum, round_engine, round_experts, round_tags>>

\* the variables of the specifications defined after OasisSpec
expert_vars == <<expert_files, expert_op>>

cron_vars == <<cron_jobs, cron_http, cron_threads, cron_count>>

cm_vars == <<cm_messages, cm_turn, cm_input, cm_cache, cm_prev, cm_count>>

xc_vars == <<xc_backend, xc_forum, xc_experts, xc_threads, xc_last>>

br_vars == <<br_offsets, br_threads, br_forums, br_call, br_last, br_fresh, br_count>>

st_vars == <<st_forum, st_gen, st_out>>

ext_vars == <<round_vars, expert_vars, sse, cron_vars, cm_vars, inject, xc_vars, br_vars, st_vars>>

core_vars == <<session_vars, tool_vars, api_vars, oasis_vars>>

vars == <<threads, active_tasks, task_lock, lock_waiters, procs,
          tn_pc, tn_msg, tn_enabled, tn_bound, tn_dispatched, tn_results,
          api_vars, oasis_vars, ext_vars>>

(***************************************************************************)
(* ApiSpec: initial state.  No thread, no task, no offset, no request.     *)
(***************************************************************************)
Requests == 1 .. MaxRequests

NoTurn == [pc |-> "none", kind |-> "none", key |-> "", pair |-> <<"", "">>, local |-> <<>>]

NoRequest ==
    [endpoint |-> "none", user_id |-> "", session_id |-> "", credential |-> "",
     status |-> 0, messages |-> <<>>, sessions |-> {}, sent |-> 0]

ApiInit ==
    /\ store = [k \in ApiThreadIds |-> <<>>]
    /\ api_tasks = [k \in ApiThreadIds |-> 0]
    /\ oasis_session_offsets = [k \in OffsetKeys |-> 0]
    /\ turns = [n \in Requests |-> NoTurn]
    /\ nreq = 0
    /\ last_req = NoRequest
    /\ deleted = {}

(***************************************************************************)
(* ToolSpec: one assistant message through the conditional edge and the    *)
(* tool node                                                               *)
(***************************************************************************)
NoMessage == AIMessage(<<>>, <<>>, "", 0)

ToolInit ==
    /\ tn_pc = "start"
    /\ tn_msg = NoMessage
    /\ tn_enabled = NoRestriction
    /\ tn_bound = {}
    /\ tn_dispatched = <<>>
    /\ tn_results = <<>>

SessionIdle ==
    /\ threads = [k \in ThreadIds |-> <<>>]
    /\ active_tasks = [k \in ThreadIds |-> 0]
    /\ task_lock = 0
    /\ lock_waiters = <<>>

\* _call_model: bind the filtered tools, the model answers with any calls
tn_call_model(names, enabled) ==
    /\ tn_pc = "start"
    /\ tn_enabled' = enabled
    /\ tn_bound' = filtered_tools(enabled)
    /\ tn_msg' = AIMessage([i \in 1 .. Len(names) |-> [id |-> i, name |-> names[i]]], <<>>, "", 0)
    /\ tn_pc' = "chatbot"
    /\ UNCHANGED <<tn_dispatched, tn_results>>

\* add_conditional_edges("chatbot", _should_continue)
tn_route ==
    /\ tn_pc = "chatbot"
    /\ tn_pc' = should_continue(tn_msg)
    /\ UNCHANGED <<tn_msg, tn_enabled, tn_bound, tn_dispatched, tn_results>>

\* the "tools" node, then add_edge("tools", "chatbot")
tn_tools ==
    /\ tn_pc = "tools"
    /\ tn_dispatched' = UserAwareToolNode(tn_msg, tn_enabled, 0).dispatched
    /\ tn_results' = UserAwareToolNode(tn_msg, tn_enabled, 0).messages
    /\ tn_pc' = "chatbot_next"
    /\ UNCHANGED <<tn_msg, tn_enabled, tn_bound>>

ToolNext ==
    \/ \E names \in SeqsUpTo(ToolNames, MaxCalls), enabled \in EnabledChoices :
          tn_call_model(names, enabled)
    \/ tn_route
    \/ tn_tools

(***************************************************************************)
(* Spec: handlers, turns and streaming workers                             *)
(*                                                                         *)
(* A slot of procs is one request.  An /ask_stream request first runs      *)
(* cancel_task as a handler and then lives on as the worker task it        *)
(* created; the steps of a slot are the resumptions of its coroutine by    *)
(* the event loop, so that code between two awaits is one step.            *)
(*   pc: idle       slot not used yet                                      *)
(*       lock_wait  suspended in "async with self._task_lock"              *)
(*       task_wait  holds the lock, suspended in wait_for(shield(task))    *)
(*       created    task created and registered, first step not yet run    *)
(*       input      graph run started, checkpoint of the thread loading    *)
(*       chatbot    suspended in llm.ainvoke                               *)
(*       tools      suspended in the tool node                             *)
(*       c_read     CancelledError caught, suspended in aget_state         *)
(*       c_stubs    suspended in aupdate_state(tool_messages)              *)
(*       c_partial  suspended in aupdate_state([partial_msg])              *)
(*       done       coroutine finished                                     *)
(***************************************************************************)
IdleProc ==
    [kind |-> "none", key |-> "", enabled |-> NoRestriction, pc |-> "idle",
     local |-> <<>>, tokens |-> <<>>, streamed |-> FALSE, ncalls |-> 0,
     cancel_req |-> FALSE, queue |-> <<>>, target |-> 0, waited |-> "none",
     stubs |-> <<>>, outcome |-> "none"]

SessionInit ==
    /\ SessionIdle
    /\ procs = [p \in Procs |-> IdleProc]

\* the topic id of the model; server.py draws it from uuid4
TopicIds == {"t1"}

NoEngine == [pc |-> "none", round_num |-> 0, top |-> <<>>]

IdleExpert == [pc |-> "idle", others |-> <<>>, applied |-> <<>>]

OasisInit ==
    /\ discussions = [t \in {} |-> DiscussionForum(1)]
    /\ engine = [t \in TopicIds |-> NoEngine]
    /\ experts = [e \in Experts |-> IdleExpert]
    /\ server = "up"

(***************************************************************************)
(* oasis/scheduler.py: Schedule and ScheduleStep, and the engine of        *)
(* RoundSpec before POST /topics                                           *)
(***************************************************************************)
ManualStep == [step_type |-> "manual", expert_names |-> <<>>]

AllStep == [step_type |-> "all_experts", expert_names |-> <<>>]

ExpertStep(name) == [step_type |-> "expert", expert_names |-> <<name>>]

ParallelStep(names) == [step_type |-> "parallel", expert_names |-> names]

\* the value of engine.schedule: None, or Schedule(steps, repeat)
NoSchedule == [given |-> FALSE, steps |-> <<>>, repeat |-> FALSE]

Schedule(steps, repeat) == [given |-> TRUE, steps |-> steps, repeat |-> repeat]

\* plans that parse_schedule accepts; "nobody" names no selected expert
Plans ==
    { <<>>,
      <<ManualStep, AllStep>>,
      <<ExpertStep("e1"), ExpertStep("e2")>>,
      <<ManualStep, ParallelStep(<<"e1", "e2">>), ExpertStep("nobody")>> }

Schedules == {NoSchedule} \cup { Schedule(steps, repeat) : steps \in Plans, repeat \in BOOLEAN }

NoRun ==
    [pc |-> "none", schedule |-> NoSchedule, requested |-> 0, i |-> 0, k |-> 0,
     rounds_run |-> 0, checks |-> 0]

IdleCall == [pc |-> "idle", others |-> <<>>, at |-> <<0, 0>>]

RoundInit ==
    /\ round_forum = DiscussionForum(1)
    /\ round_engine = NoRun
    /\ round_experts = [e \in Experts |-> IdleCall]
    /\ round_tags = <<>>

NoExpertOp == [op |-> "none", user_id |-> "", tag |-> "", data |-> <<>>, ok |-> TRUE]

ExpertStoreInit ==
    /\ expert_files = [path \in StorePaths |-> <<>>]
    /\ expert_op = NoExpertOp

SseInit == sse = [pc |-> "idle", content |-> "", wire |-> "", text |-> ""]

CronUsers == {"u1", "u2"}

CronSessions == {"default", "s2"}

NoHttp ==
    [pc |-> "none", sender |-> "", user_id |-> "", text |-> "", session_id |-> "",
     token |-> "", status |-> 0]

CronInit ==
    /\ cron_jobs = [id \in {} |-> [user_id |-> "", text |-> "", set_in |-> ""]]
    /\ cron_http = NoHttp
    /\ cron_threads = [t \in { ThreadId(u, x) : u \in CronUsers, x \in CronSessions } |-> <<>>]
    /\ cron_count = [jobs |-> 0, answered |-> 0]

CmUsers == {"u1", "u2"}

CmEnabledChoices ==
    { NoRestriction, Restrict({}), Restrict({"list_files"}),
      Restrict(internal_tool_names \cup {"retired_tool"}) }

NoCmTurn ==
    [pc |-> "idle", user_id |-> "", enabled |-> NoRestriction, is_system |-> FALSE,
     at |-> 0, calls_made |-> 0]

CallModelInit ==
    /\ cm_messages = [u \in CmUsers |-> <<>>]
    /\ cm_turn = NoCmTurn
    /\ cm_input = [sanitized |-> <<>>, messages |-> <<>>, notice |-> FALSE]
    /\ cm_cache = [u \in CmUsers |-> NoToolState]
    /\ cm_prev = [u \in CmUsers |-> internal_tool_names]
    /\ cm_count = 0

\* an argument the call does not carry
Absent == "(absent)"

NoArgs == [username |-> Absent, user_id |-> Absent, session_id |-> Absent]

NoInject ==
    [pc |-> "idle", user_id |-> "", session_id |-> "", enabled |-> NoRestriction,
     original |-> [name |-> "", args |-> NoArgs], message |-> [name |-> "", args |-> NoArgs],
     dispatched |-> NoArgs, outcome |-> "none", received |-> NoArgs]

InjectInit == inject = NoInject

\* BotSessionExpert.__init__ / ExpertAgent.__init__
NewExpert ==
    [pc |-> "idle", initialized |-> FALSE, seen_post_ids |-> {}, others |-> <<>>,
     sent |-> {}, system |-> FALSE, mark |-> 0, calls |-> 0]

NoInvocation ==
    [expert |-> "", outcome |-> "none", raw |-> "", before |-> <<>>, after |-> <<>>]

ExpertCallInit ==
    /\ xc_backend = "none"
    /\ xc_forum = DiscussionForum(MaxExpertCalls)
    /\ xc_experts = [e \in Experts |-> NewExpert]
    /\ xc_threads = [e \in Experts |-> [posts |-> {}, system |-> FALSE]]
    /\ xc_last = NoInvocation

BridgeUsers == {"a", "b"}

BridgeSessions == {"s"}

BridgePairs == BridgeUsers \X BridgeSessions

\* the thread of a bridge session
BridgeThread(pair) == OasisThreadId(pair[1], pair[2])

BridgeKeys ==
    { OffsetKey(pair[1], pair[2]) : pair \in BridgePairs }
        \cup { BridgeThread(pair) : pair \in BridgePairs }

NoBridgeCall ==
    [pc |-> "idle", pair |-> <<"", "">>, status |-> "none", history |-> <<>>,
     sent |-> <<>>, fresh |-> FALSE]

BridgeInit ==
    /\ br_offsets = [k \in BridgeKeys |-> 0]
    /\ br_threads = [pair \in BridgePairs |-> <<>>]
    /\ br_forums = [pair \in BridgePairs |-> [gen |-> 0, len |-> 0]]
    /\ br_call = NoBridgeCall
    /\ br_last = NoBridgeCall
    /\ br_fresh = {}
    /\ br_count = 0

StreamInit ==
    /\ st_forum = DiscussionForum(MaxRounds)
    /\ st_gen = [pc |-> "none", last_count |-> 0, last_round |-> 0]
    /\ st_out = <<>>

ExtInit ==
    /\ RoundInit /\ ExpertStoreInit /\ SseInit /\ CronInit /\ CallModelInit /\ InjectInit
    /\ ExpertCallInit
    /\ BridgeInit
    /\ StreamInit

Init == SessionInit /\ ToolInit /\ ApiInit /\ OasisInit /\ ExtInit

\* enabled_tools values a request of Spec may carry
RequestEnabled == {Restrict({"list_files"})}

\* tool-call names the model may answer with in Spec
ModelOutputs ==
    { <<>>, <<"run_command", "list_files">>, <<"list_files", "ext_tool">> }

CallId(p, n, i) == p * 100 + n * 10 + i

TokenId(p, n) == p * 10 + n

\* slots are taken in order
NextSlot(p) == procs[p].pc = "idle" /\ \A q \in Procs : q < p => procs[q].pc # "idle"

Running(p) == procs[p].pc \in {"input", "chatbot", "tools", "c_read", "c_stubs", "c_partial"}

InCleanup(p) == procs[p].pc \in {"c_read", "c_stubs", "c_partial"}

(***************************************************************************)
(* agent.py: cancel_task / register_task / unregister_task                 *)
(***************************************************************************)
unregister_task(tasks, key) == [tasks EXCEPT ![key] = 0]

register_task(tasks, key, task) == [tasks EXCEPT ![key] = task]

\* cancel_task from the pop to the return, and what the caller does next
\* without suspending: /cancel returns, /ask_stream creates and registers
\* its worker.  rec is the caller's record on leaving the lock.
cancel_task_exit(p, rec) ==
    /\ task_lock' = 0
    /\ IF rec.kind = "ask_stream"
       THEN /\ active_tasks' = register_task(unregister_task(active_tasks, rec.key), rec.key, p)
            /\ procs' = [procs EXCEPT ![p] = [rec EXCEPT !.pc = "created"]]
       ELSE /\ active_tasks' = unregister_task(active_tasks, rec.key)
            /\ procs' = [procs EXCEPT ![p] = [rec EXCEPT !.pc = "done", !.outcome = "returned"]]

\* cancel_task from the acquired lock to its first suspension
cancel_task_enter(p, rec) ==
    LET task == active_tasks[rec.key] IN
    IF task # 0 /\ procs[task].pc # "done"
    THEN /\ procs' = [procs EXCEPT ![task].cancel_req = TRUE,
                                   ![p] = [rec EXCEPT !.pc = "task_wait", !.target = task]]
         /\ task_lock' = p
         /\ UNCHANGED active_tasks
    ELSE cancel_task_exit(p, rec)

\* a handler reaches "await agent.cancel_task(task_key)"
cancel_task_call(p, rec) ==
    IF task_lock = 0 /\ lock_waiters = <<>>
    THEN cancel_task_enter(p, rec) /\ UNCHANGED lock_waiters
    ELSE /\ lock_waiters' = Append(lock_waiters, p)
         /\ procs' = [procs EXCEPT ![p] = [rec EXCEPT !.pc = "lock_wait"]]
         /\ UNCHANGED <<task_lock, active_tasks>>

(***************************************************************************)
(* mainagent.py: the endpoints                                             *)
(***************************************************************************)
ask_agent_stream(p, r, enabled) ==
    /\ NextSlot(p)
    /\ cancel_task_call(p, [IdleProc EXCEPT !.kind = "ask_stream",
                                            !.key = ThreadId(r[1], r[2]),
                                            !.enabled = enabled])
    /\ UNCHANGED threads

cancel_agent(p, r) ==
    /\ NextSlot(p)
    /\ cancel_task_call(p, [IdleProc EXCEPT !.kind = "cancel", !.key = ThreadId(r[1], r[2])])
    /\ UNCHANGED threads

\* the run loads the latest checkpoint of the thread, applies the input
\* (add_messages appends the HumanMessage) and saves
graph_input_step(p, rec) ==
    LET msgs == Append(threads[rec.key], HumanMessage(p)) IN
    /\ threads' = [threads EXCEPT ![rec.key] = msgs]
    /\ procs' = [procs EXCEPT ![p] = [rec EXCEPT !.local = msgs, !.pc = "chatbot"]]

\* agent_app.ainvoke(user_input, config): the request is taken up to the
\* first model call
ask_agent(p, r, enabled) ==
    /\ NextSlot(p)
    /\ graph_input_step(p, [IdleProc EXCEPT !.kind = "ask",
                                            !.key = ThreadId(r[1], r[2]),
                                            !.enabled = enabled])
    /\ UNCHANGED <<active_tasks, task_lock, lock_waiters>>

\* asyncio.create_task(agent_app.ainvoke(system_input, config))
system_trigger(p, r) ==
    /\ NextSlot(p)
    /\ graph_input_step(p, [IdleProc EXCEPT !.kind = "system_trigger",
                                            !.key = ThreadId(r[1], r[2]),
                                            !.enabled = NoRestriction])
    /\ UNCHANGED <<active_tasks, task_lock, lock_waiters>>

(***************************************************************************)
(* agent.py: cancel_task resumed                                           *)
(***************************************************************************)
\* the lock is released and this coroutine is the first waiter
lock_granted(p) ==
    /\ procs[p].pc = "lock_wait"
    /\ task_lock = 0
    /\ lock_waiters # <<>>
    /\ Head(lock_waiters) = p
    /\ lock_waiters' = Tail(lock_waiters)
    /\ cancel_task_enter(p, procs[p])
    /\ UNCHANGED threads

\* variant: cancel_task does not wait for the cancelled task
cancel_wait_done_unawaited(p) ==
    /\ procs[p].pc = "task_wait"
    /\ cancel_task_exit(p, [procs[p] EXCEPT !.waited = "finished"])
    /\ UNCHANGED <<threads, lock_waiters>>

\* the shielded task finished within the timeout
cancel_wait_done(p) ==
    /\ procs[p].pc = "task_wait"
    /\ procs[procs[p].target].pc = "done"
    /\ cancel_task_exit(p, [procs[p] EXCEPT !.waited = "finished"])
    /\ UNCHANGED <<threads, lock_waiters>>

\* wait_for(..., timeout=5.0) expired while the worker is suspended in the
\* checkpoint I/O of its cleanup; the TimeoutError is swallowed
cancel_wait_timeout(p) ==
    /\ procs[p].pc = "task_wait"
    /\ InCleanup(procs[p].target)
    /\ cancel_task_exit(p, [procs[p] EXCEPT !.waited = "timeout"])
    /\ UNCHANGED <<threads, lock_waiters>>

(***************************************************************************)
(* mainagent.py: _stream_worker, and the graph run it (or ainvoke) drives  *)
(***************************************************************************)
IsStream(rec) == rec.kind = "ask_stream"

\* the end of a turn.  A streaming worker puts its last events, then the
\* finally block puts None (EOS) and unregisters task_key; /ask and
\* /system_trigger turns just return or raise.
turn_end(p, rec, events, outcome) ==
    IF IsStream(rec)
    THEN /\ procs' = [procs EXCEPT ![p] = [rec EXCEPT !.queue = rec.queue \o events \o <<"EOS">>,
                                                      !.pc = "done",
                                                      !.outcome = outcome]]
         /\ active_tasks' = unregister_task(active_tasks, rec.key)
    ELSE /\ procs' = [procs EXCEPT ![p] = [rec EXCEPT !.pc = "done", !.outcome = outcome]]
         /\ UNCHANGED active_tasks

\* first step of the worker task.  A task cancelled before its first step
\* gets CancelledError thrown into the unstarted coroutine: the body, and
\* with it the try / except / finally, never runs.
stream_worker_start(p) ==
    /\ procs[p].pc = "created"
    /\ procs' = [procs EXCEPT ![p] =
                    IF procs[p].cancel_req
                    THEN [procs[p] EXCEPT !.pc = "done", !.cancel_req = FALSE, !.outcome = "never_ran"]
                    ELSE [procs[p] EXCEPT !.pc = "input"]]
    /\ UNCHANGED <<threads, active_tasks, task_lock, lock_waiters>>

\* astream_events(user_input, config): the worker's run reaches its first
\* model call
graph_input(p) ==
    /\ procs[p].pc = "input"
    /\ ~procs[p].cancel_req
    /\ graph_input_step(p, procs[p])
    /\ UNCHANGED <<active_tasks, task_lock, lock_waiters>>

\* on_chat_model_stream: the content of the model call in flight arrives;
\* the worker collects it and queues a data event
model_stream(p) ==
    /\ procs[p].pc = "chatbot"
    /\ ~procs[p].cancel_req
    /\ ~procs[p].streamed
    /\ IsStream(procs[p])
    /\ procs' = [procs EXCEPT ![p] =
                    [procs[p] EXCEPT !.streamed = TRUE,
                                     !.tokens = Append(procs[p].tokens, TokenId(p, procs[p].ncalls + 1)),
                                     !.queue = Append(procs[p].queue, "token")]]
    /\ UNCHANGED <<threads, active_tasks, task_lock, lock_waiters>>

\* the chatbot node returns {"messages": [response]}; the checkpoint is
\* saved and the conditional edge _should_continue is taken
model_return(p, names) ==
    /\ procs[p].pc = "chatbot"
    /\ ~procs[p].cancel_req
    /\ procs[p].ncalls + 1 >= MaxModelCalls => names = <<>>
    /\ LET n    == procs[p].ncalls + 1
           resp == AIMessage([i \in 1 .. Len(names) |-> [id |-> CallId(p, n, i), name |-> names[i]]],
                             IF procs[p].streamed THEN <<TokenId(p, n)>> ELSE <<>>, "", p)
           msgs == Append(procs[p].local, resp)
           rec  == [procs[p] EXCEPT !.local = msgs, !.ncalls = n, !.streamed = FALSE]
       IN  /\ threads' = [threads EXCEPT ![rec.key] = msgs]
           /\ IF should_continue(resp) = "tools"
              THEN /\ procs' = [procs EXCEPT ![p] = [rec EXCEPT !.pc = "tools"]]
                   /\ UNCHANGED active_tasks
              ELSE turn_end(p, rec, <<"[DONE]">>, "completed")
    /\ UNCHANGED <<task_lock, lock_waiters>>

\* llm.ainvoke raises (vendor error, timeout): the exception leaves the run
model_error(p) ==
    /\ procs[p].pc = "chatbot"
    /\ ~procs[p].cancel_req
    /\ turn_end(p, procs[p], <<"error", "[DONE]">>, "failed")
    /\ UNCHANGED <<threads, task_lock, lock_waiters>>

tool_events(calls) == [i \in 1 .. 2 * Len(calls) |-> IF i % 2 = 1 THEN "tool_start" ELSE "tool_end"]

\* the tools node returns {"messages": result_messages}; the checkpoint is
\* saved; add_edge("tools", "chatbot")
tools_node(p) ==
    /\ procs[p].pc = "tools"
    /\ ~procs[p].cancel_req
    /\ LET out  == UserAwareToolNode(Last(procs[p].local), procs[p].enabled, p)
           msgs == procs[p].local \o out.messages
       IN  /\ threads' = [threads EXCEPT ![procs[p].key] = msgs]
           /\ procs' = [procs EXCEPT ![p] =
                           [procs[p] EXCEPT !.local = msgs,
                                            !.pc = "chatbot",
                                            !.queue = IF IsStream(procs[p])
                                                      THEN procs[p].queue \o tool_events(out.dispatched)
                                                      ELSE procs[p].queue]]
    /\ UNCHANGED <<active_tasks, task_lock, lock_waiters>>

(***************************************************************************)
(* mainagent.py: _stream_worker, except asyncio.CancelledError             *)
(***************************************************************************)
\* CancelledError is thrown into the worker where it is suspended; the
\* handler calls aget_state
stream_worker_cancelled(p) ==
    /\ procs[p].pc \in {"input", "chatbot", "tools"}
    /\ procs[p].cancel_req
    /\ procs' = [procs EXCEPT ![p] = [procs[p] EXCEPT !.pc = "c_read", !.cancel_req = FALSE]]
    /\ UNCHANGED <<threads, active_tasks, task_lock, lock_waiters>>

\* tool_messages: one stub per tool-call of the last persisted message
stub_messages(last_msgs, p) ==
    IF last_msgs # <<>> /\ HasToolCalls(Last(last_msgs))
    THEN [i \in 1 .. Len(Last(last_msgs).calls) |->
             ToolMessage(Last(last_msgs).calls[i].id, Last(last_msgs).calls[i].name, "terminated", p)]
    ELSE <<>>

partial_msg(rec, p) == AIMessage(<<>>, rec.tokens, "terminated", p)

\* after the repair: write the partial message if any token was collected,
\* else put the closing events
cleanup_partial_or_end(p, rec) ==
    IF rec.tokens # <<>>
    THEN /\ procs' = [procs EXCEPT ![p] = [rec EXCEPT !.pc = "c_partial"]]
         /\ UNCHANGED active_tasks
    ELSE turn_end(p, rec, <<"terminated", "[DONE]">>, "cancelled")

\* aget_state returned the snapshot
cleanup_read(p) ==
    /\ procs[p].pc = "c_read"
    /\ LET tool_messages == stub_messages(threads[procs[p].key], p)
           rec == [procs[p] EXCEPT !.stubs = tool_messages]
       IN  IF tool_messages # <<>>
           THEN /\ procs' = [procs EXCEPT ![p] = [rec EXCEPT !.pc = "c_stubs"]]
                /\ UNCHANGED active_tasks
           ELSE cleanup_partial_or_end(p, rec)
    /\ UNCHANGED <<threads, task_lock, lock_waiters>>

\* aupdate_state(config, {"messages": tool_messages}) appended the stubs to
\* the latest checkpoint
cleanup_stubs(p) ==
    /\ procs[p].pc = "c_stubs"
    /\ threads' = [threads EXCEPT ![procs[p].key] = threads[procs[p].key] \o procs[p].stubs]
    /\ cleanup_partial_or_end(p, procs[p])
    /\ UNCHANGED <<task_lock, lock_waiters>>

\* aupdate_state(config, {"messages": [partial_msg]}) appended the partial
\* reply; the closing events follow
cleanup_partial(p) ==
    /\ procs[p].pc = "c_partial"
    /\ threads' = [threads EXCEPT ![procs[p].key] = Append(threads[procs[p].key], partial_msg(procs[p], p))]
    /\ turn_end(p, procs[p], <<"terminated", "[DONE]">>, "cancelled")
    /\ UNCHANGED <<task_lock, lock_waiters>>

(***************************************************************************)
(* Specifications                                                          *)
(***************************************************************************)
SessionNext ==
    \/ \E p \in Procs, r \in Requesters, enabled \in RequestEnabled : ask_agent_stream(p, r, enabled)
    \/ \E p \in Procs, r \in Requesters : cancel_agent(p, r)
    \/ \E p \in Procs, r \in Requesters, enabled \in RequestEnabled : ask_agent(p, r, enabled)
    \/ \E p \in Procs, r \in Requesters : system_trigger(p, r)
    \/ \E p \in Procs : lock_granted(p)
    \/ \E p \in Procs : cancel_wait_done(p)
    \/ \E p \in Procs : cancel_wait_timeout(p)
    \/ \E p \in Procs : stream_worker_start(p)
    \/ \E p \in Procs : graph_input(p)
    \/ \E p \in Procs : model_stream(p)
    \/ \E p \in Procs, names \in ModelOutputs : model_return(p, names)
    \/ \E p \in Procs : model_error(p)
    \/ \E p \in Procs : tools_node(p)
    \/ \E p \in Procs : stream_worker_cancelled(p)
    \/ \E p \in Procs : cleanup_read(p)
    \/ \E p \in Procs : cleanup_stubs(p)
    \/ \E p \in Procs : cleanup_partial(p)

Next == SessionNext /\ UNCHANGED <<tool_vars, api_vars, oasis_vars, ext_vars>>

Spec == Init /\ [][Next]_vars

ToolSpecNext == ToolNext /\ UNCHANGED <<session_vars, api_vars, oasis_vars, ext_vars>>

ToolSpec == Init /\ [][ToolSpecNext]_vars

(***************************************************************************)
(* Properties of the session and task manager (Spec)                       *)
(***************************************************************************)
AllInternal(m) ==
    /\ HasToolCalls(m)
    /\ \A c \in 1 .. Len(m.calls) : m.calls[c].name \in internal_tool_names

IsBoundary(m) == m.kind \in {"ai", "human"}

\* index of the next assistant or user message after i, Len + 1 if none
NextBoundary(msgs, i) ==
    IF \E j \in i + 1 .. Len(msgs) : IsBoundary(msgs[j])
    THEN CHOOSE j \in i + 1 .. Len(msgs) :
            IsBoundary(msgs[j]) /\ \A h \in i + 1 .. j - 1 : ~IsBoundary(msgs[h])
    ELSE Len(msgs) + 1

\* every call of msgs[i] has a tool-result before the next boundary
Answered(msgs, i) ==
    \A c \in 1 .. Len(msgs[i].calls) :
        \E h \in i + 1 .. NextBoundary(msgs, i) - 1 :
            msgs[h].kind = "tool" /\ msgs[h].id = msgs[i].calls[c].id

TurnRunningOn(k) == \E p \in Procs : procs[p].key = k /\ Running(p)

\* C1: in every thread, every assistant message whose tool-calls are all
\* internal has a tool-result for each of its call-ids before the next
\* assistant or user message, and when no turn is running on the thread
\* this also holds of its trailing assistant message.
C1_ToolCallClosure ==
    \A k \in ThreadIds :
        \A i \in 1 .. Len(threads[k]) :
            AllInternal(threads[k][i])
            /\ (NextBoundary(threads[k], i) <= Len(threads[k]) \/ ~TurnRunningOn(k))
            => Answered(threads[k], i)

\* the thread ends with the repaired assistant message, one stub per call
\* in call order, and then the partial reply if tokens were collected
EndsRepaired(msgs, rec, p) ==
    LET tail == rec.stubs \o (IF rec.tokens # <<>> THEN <<partial_msg(rec, p)>> ELSE <<>>)
        at   == Len(msgs) - Len(tail)
    IN  /\ at >= 1
        /\ HasToolCalls(msgs[at])
        /\ Len(msgs[at].calls) = Len(rec.stubs)
        /\ \A c \in 1 .. Len(rec.stubs) : rec.stubs[c].id = msgs[at].calls[c].id
        /\ \A h \in 1 .. Len(tail) : msgs[at + h] = tail[h]

\* C2: when a streaming worker is cancelled in its tool node and its
\* cleanup found its assistant message with tool-calls to be the last
\* persisted message, then at the end of the cleanup the thread ends with that message, exactly one
\* stub tool-result per call-id, and after them the partial assistant
\* message if there is one: no tool-call is left dangling.
C2_CleanupRepairs ==
    [][\A p \in Procs :
          /\ InCleanup(p) /\ procs'[p].pc = "done"
          /\ procs[p].local # <<>> /\ HasToolCalls(Last(procs[p].local))
          /\ procs'[p].stubs = stub_messages(procs[p].local, p)
          => EndsRepaired(threads'[procs[p].key], procs'[p], p)]_vars

\* C3: at most one turn is executing on a thread_id at any moment.
C3_SingleWriter ==
    \A k \in ThreadIds : Cardinality({p \in Procs : procs[p].key = k /\ Running(p)}) <= 1

\* cancel_task has returned to the handler of slot p
CancelReturned(p) ==
    /\ procs[p].kind \in {"ask_stream", "cancel"}
    /\ procs[p].pc \notin {"idle", "lock_wait", "task_wait"}

\* C4 (as claimed): whenever /cancel, or the implicit cancel of a new
\* /ask_stream, has returned, the worker it cancelled is no longer running.
C4_CleanupBeforeReturn ==
    \A p \in Procs :
        CancelReturned(p) /\ procs[p].target # 0 => procs[procs[p].target].pc = "done"

\* C4 (amended): whenever /cancel, or the implicit cancel of a new
\* /ask_stream, has returned, the worker it cancelled has stopped, having
\* finished its cleanup or never having run, unless the 5-second wait of
\* cancel_task timed out.
C4_CleanupOrTimeout ==
    \A p \in Procs :
        CancelReturned(p) /\ procs[p].target # 0 =>
            \/ procs[p].waited = "timeout"
            \/ /\ procs[p].waited = "finished"
               /\ procs[procs[p].target].pc = "done"
               /\ procs[procs[p].target].outcome \in {"cancelled", "never_ran"}

\* a cancel returned after waiting for a cleanup that repaired the thread
C4_Witness ==
    \E p \in Procs :
        /\ CancelReturned(p)
        /\ procs[p].target # 0
        /\ procs[p].waited = "finished"
        /\ procs[procs[p].target].outcome = "cancelled"
        /\ procs[procs[p].target].stubs # <<>>

\* C5: the event stream of every finished streaming worker ends with
\* exactly one [DONE] followed by the end of the stream.
C5_DoneSentinel ==
    \A p \in Procs :
        IsStream(procs[p]) /\ procs[p].pc = "done" =>
            LET q == procs[p].queue IN
            /\ Len(q) >= 2
            /\ q[Len(q)] = "EOS"
            /\ q[Len(q) - 1] = "[DONE]"
            /\ Cardinality({i \in 1 .. Len(q) : q[i] = "[DONE]"}) = 1

\* C6: the active-task map holds no entry whose task has finished.
C6_NoFinishedTask ==
    \A k \in ThreadIds : active_tasks[k] # 0 => procs[active_tasks[k]].pc # "done"

\* C7: a model call is followed by the tool node exactly when the assistant
\* message has tool-calls and all their names are in the registry;
\* otherwise the turn ends with that message last in the thread and none of
\* its calls answered; the tool node is followed by a model call.
C7_Routing ==
    [][\A p \in Procs :
          /\ procs'[p].ncalls # procs[p].ncalls =>
                LET m == Last(procs'[p].local) IN
                /\ procs'[p].pc \in {"tools", "done"}
                /\ procs'[p].pc = "tools" <=>
                      (m.calls # <<>> /\ \A c \in 1 .. Len(m.calls) : m.calls[c].name \in internal_tool_names)
                /\ procs'[p].pc = "done" =>
                      /\ procs'[p].outcome = "completed"
                      /\ Last(threads'[procs'[p].key]) = m
          /\ procs[p].pc = "tools" /\ procs'[p].pc \notin {"tools", "c_read"} =>
                procs'[p].pc = "chatbot"]_vars

\* a turn that ended on a message with an internal and an external call
C7_Witness ==
    \E p \in Procs :
        /\ procs[p].pc = "done"
        /\ procs[p].outcome = "completed"
        /\ procs[p].ncalls = 1
        /\ Len(Last(procs[p].local).calls) = 2
        /\ \E q \in Procs : procs[q].pc = "chatbot" /\ procs[q].ncalls = 1

(***************************************************************************)
(* Properties of the routing function and the tool node (ToolSpec)         *)
(***************************************************************************)
ResultsFor(id) == {i \in 1 .. Len(tn_results) : tn_results[i].id = id}

Dispatched(id) == \E i \in 1 .. Len(tn_dispatched) : tn_dispatched[i].id = id

OutsideEnabled(name) == tn_enabled.restricted /\ name \notin tn_enabled.names

\* C8: after the tool node, every call whose name is outside the enabled
\* set was not dispatched and has exactly one tool-result, which says the
\* tool is disabled; every dispatched call has its name in the enabled set
\* or the turn has no restriction.
C8_DisabledIntercepted ==
    tn_pc = "chatbot_next" =>
        /\ \A c \in 1 .. Len(tn_msg.calls) :
              OutsideEnabled(tn_msg.calls[c].name) =>
                 /\ ~Dispatched(tn_msg.calls[c].id)
                 /\ Cardinality(ResultsFor(tn_msg.calls[c].id)) = 1
                 /\ \A i \in ResultsFor(tn_msg.calls[c].id) : tn_results[i].note = "disabled"
        /\ \A i \in 1 .. Len(tn_dispatched) : ~OutsideEnabled(tn_dispatched[i].name)

\* the tool node handled a disabled call next to a dispatched one
C8_Witness ==
    /\ tn_pc = "chatbot_next"
    /\ \E c \in 1 .. Len(tn_msg.calls) : OutsideEnabled(tn_msg.calls[c].name)
    /\ tn_dispatched # <<>>

AllAnsweredDisabled ==
    /\ tn_dispatched = <<>>
    /\ Len(tn_results) = Len(tn_msg.calls)
    /\ \A c \in 1 .. Len(tn_msg.calls) :
          tn_results[c].id = tn_msg.calls[c].id /\ tn_results[c].note = "disabled"

\* C9 (as claimed): with an empty enabled_tools list no registry tool is
\* bound to the model, and once the executor has acted on the assistant
\* message every tool-call of it is answered with a "disabled" tool-result
\* and none is dispatched.
C9_EmptyEnabledAllIntercepted ==
    tn_enabled = Restrict({}) /\ tn_pc # "start" =>
        /\ tn_bound = {}
        /\ tn_pc \in {"end", "chatbot_next"} /\ tn_msg.calls # <<>> =>
              tn_pc = "chatbot_next" /\ AllAnsweredDisabled

\* C9 (amended): with an empty enabled_tools list no registry tool is bound
\* to the model; a message whose tool-calls all name registry tools is
\* answered with one "disabled" tool-result per call and nothing is
\* dispatched; a message with a call to a name outside the registry ends
\* the turn with its calls unanswered.
C9_EmptyEnabledInternalIntercepted ==
    tn_enabled = Restrict({}) /\ tn_pc # "start" =>
        /\ tn_bound = {}
        /\ tn_pc = "chatbot_next" => AllAnsweredDisabled
        /\ tn_pc \in {"tools", "chatbot_next"} => AllInternal(tn_msg)
        /\ tn_pc = "end" => ~AllInternal(tn_msg) /\ tn_results = <<>> /\ tn_dispatched = <<>>

\* two hallucinated registry calls were answered as disabled
C9_Witness ==
    /\ tn_enabled = Restrict({})
    /\ tn_pc = "chatbot_next"
    /\ Len(tn_msg.calls) = 2
    /\ Len(tn_results) = 2

\* C10 (as claimed): the tool node emits exactly one tool-result per call,
\* in the order of the calls of the request.
C10_RequestOrder ==
    tn_pc = "chatbot_next" =>
        /\ Len(tn_results) = Len(tn_msg.calls)
        /\ \A c \in 1 .. Len(tn_msg.calls) : tn_results[c].id = tn_msg.calls[c].id

\* position of the call with this id in the request
CallIndex(id) == CHOOSE c \in 1 .. Len(tn_msg.calls) : tn_msg.calls[c].id = id

\* C10 (amended): the tool node emits exactly one tool-result per call; the
\* results of disabled calls come first, in request order, followed by the
\* results of the dispatched calls, in request order.
C10_OnePerCallGrouped ==
    tn_pc = "chatbot_next" =>
        /\ Len(tn_results) = Len(tn_msg.calls)
        /\ \A c \in 1 .. Len(tn_msg.calls) : Cardinality(ResultsFor(tn_msg.calls[c].id)) = 1
        /\ \A i \in 1 .. Len(tn_results) :
              tn_results[i].note = (IF OutsideEnabled(tn_results[i].name) THEN "disabled" ELSE "result")
        /\ \A i, j \in 1 .. Len(tn_results) :
              i < j =>
                 /\ ~(tn_results[i].note = "result" /\ tn_results[j].note = "disabled")
                 /\ tn_results[i].note = tn_results[j].note =>
                       CallIndex(tn_results[i].id) < CallIndex(tn_results[j].id)

\* an enabled call ahead of a disabled one: the results swap places
C10_Witness ==
    /\ tn_pc = "chatbot_next"
    /\ Len(tn_msg.calls) = 2
    /\ ~OutsideEnabled(tn_msg.calls[1].name)
    /\ OutsideEnabled(tn_msg.calls[2].name)
    /\ tn_results[1].id = tn_msg.calls[2].id

(***************************************************************************)
(* ApiSpec: the endpoints of mainagent.py from the credential check on.    *)
(*                                                                         *)
(* Every request is one step: the credential check, then the handler up to *)
(* the point where it leaves a graph run in flight.  A graph run saves the *)
(* whole message list of its thread at each superstep: the list it loaded  *)
(* plus what it appended.  A run is "running" between its input checkpoint *)
(* and its final checkpoint.                                               *)
(***************************************************************************)
Request(endpoint, user_id, session_id, credential, status) ==
    [endpoint |-> endpoint, user_id |-> user_id, session_id |-> session_id,
     credential |-> credential, status |-> status, messages |-> <<>>,
     sessions |-> {}, sent |-> 0]

\* raise HTTPException(401 / 403) before anything else is done
reject(endpoint, user_id, session_id, credential, status) ==
    /\ nreq' = nreq + 1
    /\ last_req' = Request(endpoint, user_id, session_id, credential, status)
    /\ UNCHANGED <<store, api_tasks, oasis_session_offsets, turns, deleted>>

\* agent_app.ainvoke / astream_events: the input checkpoint of a new run
api_graph_input(n, kind, key, pair) ==
    LET local == store[key] \o <<HumanMessage(pair)>>
    IN  /\ store' = [store EXCEPT ![key] = local]
        /\ turns' = [turns EXCEPT ![n] =
                        [pc |-> "running", kind |-> kind, key |-> key, pair |-> pair,
                         local |-> local]]

\* the turns of a cancelled task stop writing
api_cancel_task(ts, key) ==
    [n \in Requests |->
        IF api_tasks[key] = n /\ ts[n].pc = "running"
        THEN [ts[n] EXCEPT !.pc = "cancelled"] ELSE ts[n]]

api_ask_agent(user_id, session_id, password) ==
    /\ nreq < MaxRequests
    /\ IF ~verify_password(user_id, password)
       THEN reject("ask", user_id, session_id, password, 401)
       ELSE /\ nreq' = nreq + 1
            /\ last_req' = Request("ask", user_id, session_id, password, 200)
            /\ api_graph_input(nreq + 1, "ask", ThreadId(user_id, session_id),
                               <<user_id, session_id>>)
            /\ deleted' = deleted \ {<<user_id, session_id>>}
            /\ UNCHANGED <<api_tasks, oasis_session_offsets>>

api_ask_agent_stream(user_id, session_id, password) ==
    /\ nreq < MaxRequests
    /\ IF ~verify_password(user_id, password)
       THEN reject("ask_stream", user_id, session_id, password, 401)
       ELSE LET task_key == ThreadId(user_id, session_id)
                local == store[task_key] \o <<HumanMessage(<<user_id, session_id>>)>>
            IN  /\ nreq' = nreq + 1
                /\ last_req' = Request("ask_stream", user_id, session_id, password, 200)
                /\ api_tasks' = register_task(unregister_task(api_tasks, task_key),
                                              task_key, nreq + 1)
                /\ store' = [store EXCEPT ![task_key] = local]
                /\ turns' = [api_cancel_task(turns, task_key) EXCEPT ![nreq + 1] =
                                [pc |-> "running", kind |-> "ask_stream", key |-> task_key,
                                 pair |-> <<user_id, session_id>>, local |-> local]]
                /\ deleted' = deleted \ {<<user_id, session_id>>}
                /\ UNCHANGED oasis_session_offsets

api_cancel_agent(user_id, session_id, password) ==
    /\ nreq < MaxRequests
    /\ IF ~verify_password(user_id, password)
       THEN reject("cancel", user_id, session_id, password, 401)
       ELSE LET task_key == ThreadId(user_id, session_id)
            IN  /\ nreq' = nreq + 1
                /\ last_req' = Request("cancel", user_id, session_id, password, 200)
                /\ api_tasks' = unregister_task(api_tasks, task_key)
                /\ turns' = api_cancel_task(turns, task_key)
                /\ UNCHANGED <<store, oasis_session_offsets, deleted>>

api_system_trigger(user_id, session_id, token) ==
    /\ nreq < MaxRequests
    /\ IF ~verify_internal_token(token)
       THEN reject("system_trigger", user_id, session_id, token, 403)
       ELSE /\ nreq' = nreq + 1
            /\ last_req' = Request("system_trigger", user_id, session_id, token, 200)
            /\ api_graph_input(nreq + 1, "system_trigger", ThreadId(user_id, session_id),
                               <<user_id, session_id>>)
            /\ deleted' = deleted \ {<<user_id, session_id>>}
            /\ UNCHANGED <<api_tasks, oasis_session_offsets>>

api_get_tools_list(token) ==
    /\ nreq < MaxRequests
    /\ IF ~verify_internal_token(token)
       THEN reject("tools", "", "", token, 403)
       ELSE /\ nreq' = nreq + 1
            /\ last_req' = Request("tools", "", "", token, 200)
            /\ UNCHANGED <<store, api_tasks, oasis_session_offsets, turns, deleted>>

\* /sessions: SELECT DISTINCT thread_id ... WHERE thread_id LIKE 'user#%'
list_sessions(user_id) ==
    LET prefix == user_id \o "#"
        rows == {k \in ApiThreadIds : store[k] # <<>> /\ like(prefix \o "%", k)}
    IN  { SubSeq(k, Len(prefix) + 1, Len(k)) : k \in rows }

api_list_sessions(user_id, password) ==
    /\ nreq < MaxRequests
    /\ IF ~verify_password(user_id, password)
       THEN reject("sessions", user_id, "", password, 401)
       ELSE /\ nreq' = nreq + 1
            /\ last_req' = [Request("sessions", user_id, "", password, 200)
                               EXCEPT !.sessions = list_sessions(user_id)]
            /\ UNCHANGED <<store, api_tasks, oasis_session_offsets, turns, deleted>>

\* /session_history: human and tool messages, assistant messages that have
\* content or tool calls
get_session_history(msgs) ==
    SelectSeq(msgs, LAMBDA m : \/ m.kind \in {"human", "tool"}
                               \/ m.kind = "ai" /\ (m.text # <<>> \/ m.calls # <<>>))

api_get_session_history(user_id, session_id, password) ==
    /\ nreq < MaxRequests
    /\ IF ~verify_password(user_id, password)
       THEN reject("session_history", user_id, session_id, password, 401)
       ELSE /\ nreq' = nreq + 1
            /\ last_req' = [Request("session_history", user_id, session_id, password, 200)
                               EXCEPT !.messages =
                                   get_session_history(store[ThreadId(user_id, session_id)])]
            /\ UNCHANGED <<store, api_tasks, oasis_session_offsets, turns, deleted>>

\* /delete_session, session_id non-empty: DELETE ... WHERE thread_id = ?
delete_one(user_id, session_id) ==
    LET thread_id == ThreadId(user_id, session_id)
    IN  /\ store' = [store EXCEPT ![thread_id] = <<>>]
        /\ oasis_session_offsets' = [oasis_session_offsets EXCEPT ![thread_id] = 0]
        /\ deleted' = deleted \cup {<<user_id, session_id>>}

\* /delete_session, session_id empty: DELETE ... WHERE thread_id LIKE 'user#%'
delete_all(user_id) ==
    LET pattern == user_id \o "#%"
    IN  /\ store' = [k \in ApiThreadIds |-> IF like(pattern, k) THEN <<>> ELSE store[k]]
        /\ oasis_session_offsets' =
              [k \in OffsetKeys |-> IF startswith(k, user_id \o "#") THEN 0
                                    ELSE oasis_session_offsets[k]]
        /\ deleted' = deleted \cup {<<user_id, sid>> : sid \in ApiSessions}

api_delete_session(user_id, session_id, password) ==
    /\ nreq < MaxRequests
    /\ IF ~verify_password(user_id, password)
       THEN reject("delete_session", user_id, session_id, password, 401)
       ELSE /\ nreq' = nreq + 1
            /\ last_req' = Request("delete_session", user_id, session_id, password, 200)
            /\ IF session_id # "" THEN delete_one(user_id, session_id)
                                  ELSE delete_all(user_id)
            /\ UNCHANGED <<api_tasks, turns>>

\* /oasis/ask with a history of hist_len entries
api_oasis_ask(user_id, session_id, token, hist_len) ==
    /\ nreq < MaxRequests
    /\ IF ~verify_internal_token(token)
       THEN reject("oasis_ask", user_id, session_id, token, 403)
       ELSE LET last_idx == oasis_session_offsets[OffsetKey(user_id, session_id)]
                new_messages == IF hist_len > last_idx THEN hist_len - last_idx ELSE 0
            IN  /\ nreq' = nreq + 1
                /\ IF new_messages = 0 /\ last_idx > 0
                   THEN /\ last_req' = Request("oasis_ask", user_id, session_id, token, 200)
                        /\ UNCHANGED <<store, oasis_session_offsets, turns>>
                   ELSE /\ last_req' = [Request("oasis_ask", user_id, session_id, token, 200)
                                           EXCEPT !.sent = new_messages]
                        /\ oasis_session_offsets' =
                              [oasis_session_offsets EXCEPT
                                  ![OffsetKey(user_id, session_id)] = hist_len]
                        /\ api_graph_input(nreq + 1, "oasis_ask",
                                           OasisThreadId(user_id, session_id),
                                           <<user_id, session_id>>)
                /\ UNCHANGED <<api_tasks, deleted>>

\* the final superstep of a run: the assistant message is appended to the
\* list the run holds and the list is saved; a streaming worker then
\* unregisters its key
api_turn_step(n) ==
    /\ turns[n].pc = "running"
    /\ LET local == turns[n].local \o <<AIMessage(<<>>, <<n>>, "", turns[n].pair)>>
       IN  /\ store' = [store EXCEPT ![turns[n].key] = local]
           /\ turns' = [turns EXCEPT ![n].pc = "done", ![n].local = local]
    /\ api_tasks' = IF turns[n].kind = "ask_stream"
                    THEN unregister_task(api_tasks, turns[n].key) ELSE api_tasks
    /\ UNCHANGED <<oasis_session_offsets, nreq, last_req, deleted>>

ApiNext ==
    \/ \E r \in ApiPairs, pw \in Passwords : api_ask_agent(r[1], r[2], pw)
    \/ \E r \in ApiPairs, pw \in Passwords : api_ask_agent_stream(r[1], r[2], pw)
    \/ \E r \in ApiPairs, pw \in Passwords : api_cancel_agent(r[1], r[2], pw)
    \/ \E r \in ApiPairs, token \in Tokens : api_system_trigger(r[1], r[2], token)
    \/ \E token \in Tokens : api_get_tools_list(token)
    \/ \E u \in ApiUsers, pw \in Passwords : api_list_sessions(u, pw)
    \/ \E r \in ApiPairs, pw \in Passwords : api_get_session_history(r[1], r[2], pw)
    \/ \E u \in ApiUsers, sid \in ApiSessions \cup {""}, pw \in Passwords :
          api_delete_session(u, sid, pw)
    \/ \E r \in ApiPairs, token \in Tokens, h \in 0 .. MaxHistory :
          api_oasis_ask(r[1], r[2], token, h)
    \/ \E n \in Requests : api_turn_step(n)

ApiSpecNext == ApiNext /\ UNCHANGED <<session_vars, tool_vars, oasis_vars, ext_vars>>

ApiSpec == Init /\ [][ApiSpecNext]_vars

(***************************************************************************)
(* Properties of the HTTP boundary (ApiSpec)                               *)
(***************************************************************************)
\* the step receives a request and answers it with 200
Accepted(endpoints) ==
    /\ nreq' = nreq + 1
    /\ last_req'.endpoint \in endpoints
    /\ last_req'.status = 200

RequestPair(req) == <<req.user_id, req.session_id>>

\* what belongs to the pair Q is the same before and after the step
PairUntouched(Q) ==
    /\ store'[ThreadId(Q[1], Q[2])] = store[ThreadId(Q[1], Q[2])]
    /\ store'[OasisThreadId(Q[1], Q[2])] = store[OasisThreadId(Q[1], Q[2])]
    /\ api_tasks'[ThreadId(Q[1], Q[2])] = api_tasks[ThreadId(Q[1], Q[2])]
    /\ \A n \in Requests : turns[n].pair = Q => turns'[n] = turns[n]
    /\ oasis_session_offsets'[OffsetKey(Q[1], Q[2])] =
          oasis_session_offsets[OffsetKey(Q[1], Q[2])]

\* C11: a turn, a cancel or a bridge call on one (user_id, session_id) pair
\* never appends to the thread of another pair, never cancels or replaces
\* the other pair's active task and never changes the other pair's bridge
\* offset, for ids that may contain '#'.
C11_PairIsolation ==
    [][ Accepted({"ask", "ask_stream", "system_trigger", "cancel", "oasis_ask"}) =>
           \A Q \in ApiPairs \ {RequestPair(last_req')} : PairUntouched(Q) ]_vars

\* C12: /delete_session with a session id removes exactly the thread
\* user#session and leaves every other thread as it was; with an empty
\* session id it removes every thread whose id starts with "user#" and no
\* other thread.
C12_DeleteFrame ==
    [][ Accepted({"delete_session"}) =>
           LET user_id == last_req'.user_id
               session_id == last_req'.session_id
           IN  IF session_id # ""
               THEN store' = [store EXCEPT ![ThreadId(user_id, session_id)] = <<>>]
               ELSE \A k \in ApiThreadIds :
                       store'[k] = IF startswith(k, user_id \o "#") THEN <<>> ELSE store[k]
      ]_vars

\* C13: from the return of /delete_session for (user, session) until a new
\* turn is submitted on that session, /session_history of the session is
\* empty, also when a turn was in flight at the time of the deletion.
C13_DeletedHistoryEmpty ==
    \A P \in deleted : get_session_history(store[ThreadId(P[1], P[2])]) = <<>>

InternalEndpoints == {"system_trigger", "tools", "oasis_ask"}

ValidCredential(req) ==
    IF req.endpoint \in InternalEndpoints
    THEN req.credential = INTERNAL_TOKEN
    ELSE \E u \in DOMAIN load_users :
            u = req.user_id /\ load_users[u] = sha256(req.credential)

\* C14: a request whose user_id/password pair is invalid (user-bound
\* endpoints) or whose internal token is missing or wrong (/system_trigger,
\* /tools, /oasis/ask) is answered 401 or 403 and changes no thread, task,
\* run or bridge offset.
C14_RejectedNoEffect ==
    [][ (nreq' = nreq + 1 /\ ~ValidCredential(last_req')) =>
           /\ last_req'.status =
                 IF last_req'.endpoint \in InternalEndpoints THEN 403 ELSE 401
           /\ UNCHANGED <<store, api_tasks, oasis_session_offsets, turns, deleted>>
      ]_vars

\* a wrong password on /cancel while the streaming run of that key is in
\* flight, and a wrong token on /oasis/ask
C14_Witness ==
    /\ last_req.status \in {401, 403}
    /\ \/ /\ last_req.endpoint \in {"cancel", "delete_session"}
          /\ api_tasks[ThreadId(last_req.user_id, "c")] # 0
          /\ turns[api_tasks[ThreadId(last_req.user_id, "c")]].pc = "running"
       \/ /\ last_req.endpoint = "oasis_ask"
          /\ last_req.credential = "bad"
          /\ store["a#oasis_c"] # <<>>

(***************************************************************************)
(* OasisSpec: oasis/experts.py, what an expert's backend call returns and  *)
(* how the reply is applied to the forum.                                  *)
(*                                                                         *)
(* The forum lock is never held across an await, so acquiring it never     *)
(* suspends: an expert's publish and its votes run in one resumption of    *)
(* its task, and each browse runs in the resumption that starts the call.  *)
(***************************************************************************)
Vote(post_id, direction) == [post_id |-> post_id, direction |-> direction]

JsonReply(reply_to, votes) ==
    [kind |-> "json", content |-> "x", reply_to |-> reply_to, votes |-> votes]

\* replies of the backend: parsed JSON, text that fails to parse, an error
ExpertReplies ==
    { JsonReply(0, <<>>),
      JsonReply(1, <<Vote(1, "up")>>),
      JsonReply(0, <<Vote(1, "down"), Vote(1, "up")>>),
      JsonReply(0, <<Vote(2, "up"), Vote(2, "up")>>),
      JsonReply(1, <<Vote(1, "sideways"), Vote(2, "down")>>),
      [kind |-> "raw", content |-> "raw", reply_to |-> 0, votes |-> <<>>],
      [kind |-> "error", content |-> "", reply_to |-> 0, votes |-> <<>>] }

\* _apply_response: the loop over result["votes"]
RECURSIVE cast_votes(_, _, _)
cast_votes(forum, expert_name, votes) ==
    IF votes = <<>> THEN forum
    ELSE LET v == Head(votes)
         IN  cast_votes(IF v.direction \in {"up", "down"}
                        THEN vote(forum, expert_name, v.post_id, v.direction)
                        ELSE forum,
                        expert_name, Tail(votes))

apply_response(result, expert_name, forum, others) ==
    LET reply_to == IF result.reply_to = 0 /\ others # <<>>
                    THEN Last(others).id ELSE result.reply_to
    IN  cast_votes(publish(forum, expert_name, result.content, reply_to),
                   expert_name, result.votes)

\* variant: a failed backend call publishes a post that reports the error
participate_reply_error_post(forum, expert_name, result, others) ==
    IF result.kind = "json" THEN apply_response(result, expert_name, forum, others)
    ELSE publish(forum, expert_name, result.content, 0)

\* ExpertAgent.participate from the return of the backend call on
participate_reply(forum, expert_name, result, others) ==
    IF result.kind = "json" THEN apply_response(result, expert_name, forum, others)
    ELSE IF result.kind = "raw" THEN publish(forum, expert_name, result.content, 0)
    ELSE forum

\* asyncio.gather(*[expert.participate(forum) ...]): every expert browses
\* and then awaits its backend
gather_participate(forum) ==
    [e \in Experts |->
        [pc |-> "llm", others |-> browse(forum, e, TRUE), applied |-> experts[e].applied]]

\* variant: the threshold is half of the experts
consensus_reached_half(forum) ==
    LET top == get_top_posts(forum, 1)
    IN  top # <<>> /\ top[1].upvotes * 2 >= Cardinality(Experts)

\* _consensus_reached
consensus_reached(forum) ==
    LET top == get_top_posts(forum, 1)
    IN  top # <<>> /\ top[1].upvotes * 10 >= Cardinality(Experts) * 7

(***************************************************************************)
(* OasisSpec: oasis/server.py and oasis/engine.py                          *)
(*   engine pc: none         no engine                                     *)
(*              ctor_failed  DiscussionEngine(...) raised in create_topic  *)
(*              created      task created, run() not started               *)
(*              gather       run() suspended in asyncio.gather of a round  *)
(*              summarize    run() suspended in summarizer.ainvoke         *)
(*              exited       run() returned                                *)
(*              cancelled    task cancelled when the event loop stopped    *)
(***************************************************************************)
create_topic(t, max_rounds, ctor_ok) ==
    /\ server = "up"
    /\ t \notin DOMAIN discussions
    /\ discussions' = (t :> DiscussionForum(max_rounds)) @@ discussions
    /\ engine' = [engine EXCEPT ![t].pc = IF ctor_ok THEN "created" ELSE "ctor_failed"]
    /\ UNCHANGED <<experts, server>>

\* run() up to the gather of the first round
engine_run(t) ==
    /\ server # "stopped"
    /\ engine[t].pc = "created"
    /\ discussions' = [discussions EXCEPT ![t].status = "discussing", ![t].current_round = 1]
    /\ experts' = gather_participate(discussions[t])
    /\ engine' = [engine EXCEPT ![t].pc = "gather", ![t].round_num = 0]
    /\ UNCHANGED server

\* an expert's backend call returns and its reply is applied
expert_reply(t, e, result) ==
    /\ server # "stopped"
    /\ engine[t].pc = "gather"
    /\ experts[e].pc = "llm"
    /\ discussions' = [discussions EXCEPT
                          ![t] = participate_reply(@, e, result, experts[e].others)]
    /\ experts' = [experts EXCEPT ![e].pc = "done", ![e].applied = result]
    /\ UNCHANGED <<engine, server>>

\* run() from the return of a round's gather to its next await or its end;
\* format_ok: the summary prompt template formats without raising
engine_gather_done(t, format_ok) ==
    /\ server # "stopped"
    /\ engine[t].pc = "gather"
    /\ \A e \in Experts : experts[e].pc = "done"
    /\ LET forum == discussions[t]
           round_num == engine[t].round_num
           stop == round_num >= 1 /\ consensus_reached(forum)
           top == IF round_num >= 1 THEN get_top_posts(forum, 1) ELSE engine[t].top
       IN  IF ~stop /\ round_num + 1 < forum.max_rounds
           THEN /\ discussions' = [discussions EXCEPT ![t].current_round = round_num + 2]
                /\ experts' = gather_participate(forum)
                /\ engine' = [engine EXCEPT ![t].round_num = round_num + 1, ![t].top = top]
           ELSE /\ experts' = [e \in Experts |-> [experts[e] EXCEPT !.pc = "idle"]]
                /\ IF get_top_posts(forum, 5) = <<>>
                   THEN /\ discussions' = [discussions EXCEPT ![t].conclusion = "no_views",
                                                              ![t].status = "concluded"]
                        /\ engine' = [engine EXCEPT ![t].pc = "exited", ![t].top = top]
                   ELSE IF ~format_ok
                   THEN /\ discussions' = [discussions EXCEPT ![t].status = "error",
                                                              ![t].conclusion = "run_error"]
                        /\ engine' = [engine EXCEPT ![t].pc = "exited", ![t].top = top]
                   ELSE /\ engine' = [engine EXCEPT ![t].pc = "summarize", ![t].top = top]
                        /\ UNCHANGED discussions
    /\ UNCHANGED server

\* summarizer.ainvoke returns or raises; run() sets the conclusion and ends
engine_summarized(t, ok) ==
    /\ server # "stopped"
    /\ engine[t].pc = "summarize"
    /\ discussions' = [discussions EXCEPT
                          ![t].conclusion = IF ok THEN "summary" ELSE "summary_failed",
                          ![t].status = "concluded"]
    /\ engine' = [engine EXCEPT ![t].pc = "exited"]
    /\ UNCHANGED <<experts, server>>

\* lifespan, after the yield
lifespan_shutdown ==
    /\ server = "up"
    /\ server' = "shutdown"
    /\ discussions' = [t \in DOMAIN discussions |->
                          IF discussions[t].status = "discussing"
                          THEN [discussions[t] EXCEPT !.status = "error",
                                                      !.conclusion = "shutdown"]
                          ELSE discussions[t]]
    /\ UNCHANGED <<engine, experts>>

\* the event loop ends: tasks still pending are cancelled
loop_stop ==
    /\ server = "shutdown"
    /\ server' = "stopped"
    /\ engine' = [t \in TopicIds |->
                     IF engine[t].pc \in {"created", "gather", "summarize"}
                     THEN [engine[t] EXCEPT !.pc = "cancelled"] ELSE engine[t]]
    /\ UNCHANGED <<discussions, experts>>

EngineNext ==
    \/ \E t \in TopicIds : engine_run(t)
    \/ \E t \in TopicIds, e \in Experts, result \in ExpertReplies : expert_reply(t, e, result)
    \/ \E t \in TopicIds, format_ok \in BOOLEAN : engine_gather_done(t, format_ok)
    \/ \E t \in TopicIds, ok \in BOOLEAN : engine_summarized(t, ok)

OasisNext ==
    \/ \E t \in TopicIds, max_rounds \in 1 .. MaxRounds, ctor_ok \in BOOLEAN :
          create_topic(t, max_rounds, ctor_ok)
    \/ EngineNext
    \/ lifespan_shutdown
    \/ loop_stop

OasisSpecNext == OasisNext /\ UNCHANGED <<session_vars, tool_vars, api_vars, ext_vars>>

OasisSpec == Init /\ [][OasisSpecNext]_vars

\* every backend call eventually returns or fails, and a task that can run
\* is eventually run
OasisFairSpec ==
    OasisSpec /\ WF_vars(EngineNext /\ UNCHANGED <<session_vars, tool_vars, api_vars, ext_vars>>)

(***************************************************************************)
(* Properties of the forum board (OasisSpec)                               *)
(***************************************************************************)
Boards == { discussions[t] : t \in DOMAIN discussions }

VotersOf(p, direction) == {v \in DOMAIN p.voters : p.voters[v] = direction}

\* C15: in every reachable state of a topic every post p has p.author not
\* among p.voters, p.upvotes = number of voters recorded "up", p.downvotes =
\* number recorded "down", hence |p.voters| = p.upvotes + p.downvotes.
C15_VoteCounts ==
    \A forum \in Boards : \A i \in 1 .. Len(forum.posts) :
        LET p == forum.posts[i]
        IN  /\ p.author \notin DOMAIN p.voters
            /\ p.upvotes = Cardinality(VotersOf(p, "up"))
            /\ p.downvotes = Cardinality(VotersOf(p, "down"))
            /\ Cardinality(DOMAIN p.voters) = p.upvotes + p.downvotes

\* both experts have published twice and some post carries an up vote and
\* some post a down vote
C15_Witness ==
    \E forum \in Boards :
        /\ Len(forum.posts) = 4
        /\ \E i \in 1 .. 4 : forum.posts[i].upvotes = 1
        /\ \E i \in 1 .. 4 : forum.posts[i].downvotes = 1

VoteInputs == (Experts \cup {"guest"}) \X (0 .. MaxRounds * Cardinality(Experts) + 1) \X {"up", "down"}

\* the board after the vote differs from the board before in post i only:
\* one counter is one higher and the voter is recorded
OneVoteRecorded(before, after, i, voter, direction) ==
    /\ [after EXCEPT !.posts = before.posts] = before
    /\ Len(after.posts) = Len(before.posts)
    /\ \A j \in 1 .. Len(before.posts) : j # i => after.posts[j] = before.posts[j]
    /\ LET p == before.posts[i]
           q == after.posts[i]
       IN  /\ [q EXCEPT !.voters = p.voters, !.upvotes = p.upvotes,
                        !.downvotes = p.downvotes] = p
           /\ DOMAIN q.voters = DOMAIN p.voters \cup {voter}
           /\ q.voters[voter] = direction
           /\ \A v \in DOMAIN p.voters : q.voters[v] = p.voters[v]
           /\ q.upvotes = p.upvotes + (IF direction = "up" THEN 1 ELSE 0)
           /\ q.downvotes = p.downvotes + (IF direction = "down" THEN 1 ELSE 0)

\* C16: vote(voter, post_id, direction) leaves the whole board unchanged
\* when the voter is the author, has already voted on the post, or no post
\* has that id; otherwise it raises exactly one counter of exactly that post
\* by one and records the voter, all else unchanged.
C16_VoteFrame ==
    \A forum \in Boards : \A in \in VoteInputs :
        LET voter == in[1]
            post_id == in[2]
            direction == in[3]
            after == vote(forum, voter, post_id, direction)
            hits == {i \in 1 .. Len(forum.posts) : forum.posts[i].id = post_id}
        IN  IF \/ hits = {}
               \/ \E i \in hits : \/ forum.posts[i].author = voter
                                  \/ voter \in DOMAIN forum.posts[i].voters
            THEN after = forum
            ELSE \E i \in hits : OneVoteRecorded(forum, after, i, voter, direction)

\* an expert answered with a down vote and then an up vote on post 1 of the
\* other expert: the post records the down vote alone
C16_Witness ==
    \E forum \in Boards : \E e \in Experts :
        /\ experts[e].applied = JsonReply(0, <<Vote(1, "down"), Vote(1, "up")>>)
        /\ Len(forum.posts) = 2
        /\ forum.posts[1].author # e
        /\ forum.posts[1].voters = (e :> "down")
        /\ forum.posts[1].upvotes = 0
        /\ forum.posts[1].downvotes = 1

PublishInputs == (Experts \cup {"guest"}) \X {"x", "raw"} \X {0, 1}

\* C17: the ids of the posts in list order are 1, 2, ..., n; a publish
\* appends one post with id = previous count + 1 which a browse then returns
\* with the published author, content and reply_to, also when the content
\* repeats an earlier post; no step removes or reorders a post.
C17_PostIds ==
    /\ [](\A forum \in Boards :
            /\ \A i \in 1 .. Len(forum.posts) : forum.posts[i].id = i
            /\ \A in \in PublishInputs :
                  LET after == browse(publish(forum, in[1], in[2], in[3]), "", FALSE)
                  IN  /\ Len(after) = Len(forum.posts) + 1
                      /\ SubSeq(after, 1, Len(forum.posts)) = forum.posts
                      /\ after[Len(after)] = Post(Len(forum.posts) + 1, in[1], in[2], in[3]))
    /\ [][\A t \in DOMAIN discussions :
            /\ Len(discussions'[t].posts) >= Len(discussions[t].posts)
            /\ \A i \in 1 .. Len(discussions[t].posts) :
                  LET p == discussions[t].posts[i]
                      q == discussions'[t].posts[i]
                  IN  <<q.id, q.author, q.content, q.reply_to>> =
                      <<p.id, p.author, p.content, p.reply_to>>]_vars

\* the same expert has published the same content twice
C17_Witness ==
    \E forum \in Boards :
        /\ Len(forum.posts) = 4
        /\ \E i, j \in 1 .. 4 :
              /\ i < j
              /\ forum.posts[i].author = forum.posts[j].author
              /\ forum.posts[i].content = forum.posts[j].content
              /\ forum.posts[i].id # forum.posts[j].id

\* p ranks before q: higher net score, or equal score and smaller id
RanksBefore(p, q) == score(p) > score(q) \/ (score(p) = score(q) /\ p.id < q.id)

\* C18: for every board and every n, top_k(n) is the first n posts of the
\* list sorted by descending upvotes - downvotes, equal scores by ascending
\* id.
C18_TopK ==
    \A forum \in Boards : \A n \in 0 .. MaxTopK :
        LET top == get_top_posts(forum, n)
            chosen == {top[i] : i \in 1 .. Len(top)}
            all == {forum.posts[i] : i \in 1 .. Len(forum.posts)}
        IN  /\ Len(top) = IF n < Len(forum.posts) THEN n ELSE Len(forum.posts)
            /\ chosen \subseteq all
            /\ Cardinality(chosen) = Len(top)
            /\ \A i, j \in 1 .. Len(top) : i < j => RanksBefore(top[i], top[j])
            /\ \A p \in chosen, q \in all \ chosen : RanksBefore(p, q)

\* the engine has ranked a board on which two posts tie and a later post
\* outranks them
C18_Witness ==
    \E t \in DOMAIN discussions :
        LET posts == discussions[t].posts
        IN  /\ engine[t].pc = "summarize"
            /\ engine[t].top = get_top_posts(discussions[t], 1)
            /\ \E i, j, k \in 1 .. Len(posts) :
                  /\ i < j /\ j < k
                  /\ score(posts[i]) = score(posts[j])
                  /\ score(posts[k]) > score(posts[i])

(***************************************************************************)
(* Properties of the topic lifecycle (OasisSpec, OasisFairSpec)            *)
(***************************************************************************)
Terminal == {"concluded", "error"}

Registered(t) == t \in DOMAIN discussions

\* C19: every topic placed in the registry eventually has status concluded
\* or error, and no topic has status discussing once its engine's run has
\* exited.
C19_TopicTerminates ==
    \A t \in TopicIds :
        /\ Registered(t) ~> (Registered(t) /\ discussions[t].status \in Terminal)
        /\ [](engine[t].pc \in {"exited", "cancelled"} => discussions[t].status # "discussing")

\* C20: the status of a topic moves only pending -> discussing -> concluded
\* or error, a terminal status is never changed by a later step, and the
\* conclusion is set exactly when the status is terminal.
C20_Lifecycle ==
    /\ [][\A t \in DOMAIN discussions :
            discussions'[t].status # discussions[t].status =>
               <<discussions[t].status, discussions'[t].status>> \in
                  {<<"pending", "discussing">>, <<"discussing", "concluded">>,
                   <<"discussing", "error">>}]_vars
    /\ [](\A t \in DOMAIN discussions :
            discussions[t].conclusion # "None" <=> discussions[t].status \in Terminal)

(***************************************************************************)
(* RoundSpec: oasis/engine.py, the loops of _run_parallel and              *)
(* _run_scheduled and the steps of _execute_step, for one topic.           *)
(*   engine pc: none       no topic                                        *)
(*              created    task created, run() not started                 *)
(*              iter       at the head of the loop, iteration i (from 0)   *)
(*              step       before step k of the iteration's steps          *)
(*              await      suspended in a step's gather or participate     *)
(*              summarize  suspended in summarizer.ainvoke                 *)
(*              done       run() returned                                  *)
(*              cancelled  task cancelled when the event loop stopped      *)
(* iter and step are positions inside one resumption of the task: no       *)
(* expert is awaited there.                                                *)
(***************************************************************************)
\* replies of an expert's backend: a post that upvotes post 1, a post
\* without votes, an error
RoundReplies ==
    { JsonReply(0, <<Vote(1, "up")>>),
      JsonReply(0, <<>>),
      [kind |-> "error", content |-> "", reply_to |-> 0, votes |-> <<>>] }

once_mode(eng) == eng.schedule.given /\ ~eng.schedule.repeat

\* the number of iterations the loop of run() is entered for
loop_range(eng, forum) ==
    IF once_mode(eng) THEN Len(eng.schedule.steps) ELSE forum.max_rounds

\* the steps of iteration eng.i; _run_parallel is one gather over every expert
loop_body(eng) ==
    IF ~eng.schedule.given THEN <<AllStep>>
    ELSE IF eng.schedule.repeat THEN eng.schedule.steps
    ELSE <<eng.schedule.steps[eng.i + 1]>>

\* _resolve_experts: unknown names are skipped
resolve_experts(names) == SelectSeq(names, LAMBDA n : n \in Experts)

\* the experts whose participate() the step awaits
step_agents(step) ==
    LET agents == resolve_experts(step.expert_names)
    IN  IF step.step_type = "all_experts" THEN Experts
        ELSE IF step.step_type = "parallel" THEN { agents[j] : j \in 1 .. Len(agents) }
        ELSE IF step.step_type = "expert" /\ agents # <<>> THEN {agents[1]}
        ELSE {}

\* variant: the await returns when the first call has completed
gather_first_completed(agents) == \E e \in agents : round_experts[e].pc = "done"

\* asyncio.gather(..., return_exceptions=True) and "await participate()"
\* return when every awaited call has returned
gather_done(agents) == \A e \in agents : round_experts[e].pc = "done"

\* variant: consensus is checked after the first iteration too
consensus_check_first_round(i) == i >= 0

\* "round_num >= 1 and", "step_idx >= 1 and": whether the iteration checks consensus
consensus_check_due(i) == i >= 1

\* POST /topics
round_create(schedule, max_rounds) ==
    /\ round_engine.pc = "none"
    /\ round_forum' = DiscussionForum(max_rounds)
    /\ round_engine' = [NoRun EXCEPT !.pc = "created", !.schedule = schedule,
                                     !.requested = max_rounds]
    /\ UNCHANGED <<round_experts, round_tags>>

\* run() up to the loop
round_run ==
    /\ round_engine.pc = "created"
    /\ round_forum' = [round_forum EXCEPT !.status = "discussing"]
    /\ round_engine' = [round_engine EXCEPT !.pc = "iter"]
    /\ UNCHANGED <<round_experts, round_tags>>

\* the head of "for round_num in range(max_rounds)" / "for step_idx, step"
iter_begin ==
    /\ round_engine.pc = "iter"
    /\ IF round_engine.i < loop_range(round_engine, round_forum)
       THEN /\ round_forum' =
                  [round_forum EXCEPT
                      !.current_round = round_engine.i + 1,
                      !.max_rounds = IF once_mode(round_engine)
                                     THEN Len(round_engine.schedule.steps) ELSE @]
            /\ round_engine' = [round_engine EXCEPT !.pc = "step", !.k = 1]
       ELSE /\ round_engine' = [round_engine EXCEPT !.pc = "summarize"]
            /\ UNCHANGED round_forum
    /\ UNCHANGED <<round_experts, round_tags>>

\* _execute_step up to its await, or the whole of it when it awaits nothing;
\* prompt_ok: the discussion prompt template formats without raising.  A
\* gather keeps the exception of a call as its result; the call awaited
\* by an expert step raises into run().
execute_step(prompt_ok) ==
    /\ round_engine.pc = "step"
    /\ round_engine.k <= Len(loop_body(round_engine))
    /\ LET step == loop_body(round_engine)[round_engine.k]
           agents == step_agents(step)
       IN  IF step.step_type = "expert" /\ agents # {} /\ ~prompt_ok
           THEN /\ round_forum' = [round_forum EXCEPT !.status = "error",
                                                       !.conclusion = "run_error"]
                /\ round_engine' = [round_engine EXCEPT !.pc = "done"]
                /\ UNCHANGED <<round_experts, round_tags>>
           ELSE IF step.step_type = "manual"
           THEN /\ round_forum' = publish(round_forum, "host", "m", 0)
                /\ round_tags' = Append(round_tags, <<round_engine.i, round_engine.k>>)
                /\ round_engine' = [round_engine EXCEPT !.k = @ + 1]
                /\ UNCHANGED round_experts
           ELSE IF agents = {}
           THEN /\ round_engine' = [round_engine EXCEPT !.k = @ + 1]
                /\ UNCHANGED <<round_forum, round_experts, round_tags>>
           ELSE /\ round_experts' =
                      [e \in Experts |->
                          IF e \in agents
                          THEN [pc |-> "llm", others |-> browse(round_forum, e, TRUE),
                                at |-> <<round_engine.i, round_engine.k>>]
                          ELSE round_experts[e]]
                /\ round_engine' = [round_engine EXCEPT !.pc = "await"]
                /\ UNCHANGED <<round_forum, round_tags>>

\* an expert's backend call returns and its reply is applied
round_expert_reply(e, result) ==
    /\ round_engine.pc \notin {"none", "cancelled"}
    /\ round_experts[e].pc = "llm"
    /\ LET forum == participate_reply(round_forum, e, result, round_experts[e].others)
       IN  /\ round_forum' = forum
           /\ round_tags' = IF Len(forum.posts) > Len(round_forum.posts)
                            THEN Append(round_tags, round_experts[e].at)
                            ELSE round_tags
    /\ round_experts' = [round_experts EXCEPT ![e].pc = "done"]
    /\ UNCHANGED round_engine

\* the await of the step returns
step_done ==
    /\ round_engine.pc = "await"
    /\ gather_done(step_agents(loop_body(round_engine)[round_engine.k]))
    /\ round_experts' = [e \in Experts |->
                            IF round_experts[e].pc = "done"
                            THEN [round_experts[e] EXCEPT !.pc = "idle"]
                            ELSE round_experts[e]]
    /\ round_engine' = [round_engine EXCEPT !.pc = "step", !.k = @ + 1]
    /\ UNCHANGED <<round_forum, round_tags>>

\* the end of an iteration: the consensus check and the break
iter_end ==
    /\ round_engine.pc = "step"
    /\ round_engine.k > Len(loop_body(round_engine))
    /\ LET due == consensus_check_due(round_engine.i)
           stop == due /\ consensus_reached(round_forum)
       IN  round_engine' =
              [round_engine EXCEPT
                  !.rounds_run = @ + 1,
                  !.checks = IF due THEN @ + 1 ELSE @,
                  !.i = IF stop THEN @ ELSE @ + 1,
                  !.pc = IF stop THEN "summarize" ELSE "iter"]
    /\ UNCHANGED <<round_forum, round_experts, round_tags>>

\* _summarize returns or raises, and run() ends
round_summarized(outcome) ==
    /\ round_engine.pc = "summarize"
    /\ round_forum' =
          [round_forum EXCEPT
              !.status = IF outcome = "format_error" /\ round_forum.posts # <<>>
                         THEN "error" ELSE "concluded",
              !.conclusion = IF round_forum.posts = <<>> THEN "no_views"
                             ELSE IF outcome = "format_error" THEN "run_error"
                             ELSE IF outcome = "ok" THEN "summary" ELSE "summary_failed"]
    /\ round_engine' = [round_engine EXCEPT !.pc = "done"]
    /\ UNCHANGED <<round_experts, round_tags>>

\* the event loop ends while the task is suspended
round_cancelled ==
    /\ round_engine.pc \in {"created", "await", "summarize"}
    /\ round_engine' = [round_engine EXCEPT !.pc = "cancelled"]
    /\ UNCHANGED <<round_forum, round_experts, round_tags>>

RoundNext ==
    \/ \E schedule \in Schedules, max_rounds \in 1 .. MaxPlanRounds :
          round_create(schedule, max_rounds)
    \/ round_run
    \/ iter_begin
    \/ \E prompt_ok \in BOOLEAN : execute_step(prompt_ok)
    \/ \E e \in Experts, result \in RoundReplies : round_expert_reply(e, result)
    \/ step_done
    \/ iter_end
    \/ \E outcome \in {"ok", "failed", "format_error"} : round_summarized(outcome)
    \/ round_cancelled

RoundSpecNext == RoundNext /\ UNCHANGED <<core_vars, expert_vars, sse, cron_vars, cm_vars, inject, xc_vars, br_vars, st_vars>>

RoundSpec == Init /\ [][RoundSpecNext]_vars

(***************************************************************************)
(* Claims about the engine's rounds                                        *)
(***************************************************************************)
\* the least integer not below 0.7 * n
Ceil07(n) == (7 * n + 9) \div 10

\* the number of rounds announced for the topic: the number of steps of a
\* non-repeating schedule, max_rounds of the request otherwise
AnnouncedRounds ==
    IF round_engine.schedule.given /\ ~round_engine.schedule.repeat
    THEN Len(round_engine.schedule.steps)
    ELSE round_engine.requested

LeavesLoop == round_engine.pc \in {"iter", "step"} /\ round_engine'.pc = "summarize"

TagLeq(a, b) == a[1] < b[1] \/ (a[1] = b[1] /\ a[2] <= b[2])

\* the type of the step that runs at <<iteration, step>>
StepTypeAt(tag) ==
    IF ~round_engine.schedule.given THEN "all_experts"
    ELSE IF round_engine.schedule.repeat THEN round_engine.schedule.steps[tag[2]].step_type
    ELSE round_engine.schedule.steps[tag[1] + 1].step_type

\* C23: posts appear in the order of the rounds and steps that published
\* them, with increasing ids; two posts of the same step exist only for a
\* parallel or all-experts step; and every call still awaited was started
\* by the step the engine is suspended in, so no call of a later step or
\* round begins before those of the earlier one have returned.
C23_PlanOrder ==
    /\ Len(round_tags) = Len(round_forum.posts)
    /\ \A p, q \in 1 .. Len(round_forum.posts) :
          p < q =>
             /\ round_forum.posts[p].id < round_forum.posts[q].id
             /\ TagLeq(round_tags[p], round_tags[q])
             /\ round_tags[p] = round_tags[q] =>
                   StepTypeAt(round_tags[p]) \in {"all_experts", "parallel"}
    /\ \A e \in Experts :
          round_experts[e].pc = "llm" =>
             /\ round_engine.pc \in {"await", "cancelled"}
             /\ round_experts[e].at = <<round_engine.i, round_engine.k>>

\* C23 witness: a plan whose parallel step published the post of e2 before
\* that of e1, after a post of an earlier step and before one of a later round
C23_Witness ==
    /\ round_engine.schedule.given
    /\ \E p, q, r, t \in 1 .. Len(round_forum.posts) :
          /\ p < q /\ q < r /\ r < t
          /\ round_tags[p] # round_tags[q]
          /\ round_tags[q] = round_tags[r]
          /\ round_forum.posts[q].author = "e2"
          /\ round_forum.posts[r].author = "e1"
          /\ round_tags[t][1] > round_tags[r][1]

(***************************************************************************)
(* ExpertStoreSpec: oasis/server.py, the custom expert routes.  The routes *)
(* call the synchronous functions of experts.py without awaiting, so each  *)
(* request reads and writes its file in one step.                          *)
(***************************************************************************)
ExpertOp(op, user_id, tag, data, ok) ==
    [op |-> op, user_id |-> user_id, tag |-> tag, data |-> data, ok |-> ok]

\* POST /experts/user
add_user_expert_route(user_id, data) ==
    LET r == add_user_expert(expert_files, user_id, data)
    IN  /\ expert_files' = r.files
        /\ expert_op' = ExpertOp("add", user_id, data.tag, data, r.ok)

\* PUT /experts/user/{tag}
update_user_expert_route(user_id, tag, data) ==
    LET r == update_user_expert(expert_files, user_id, tag, data)
    IN  /\ expert_files' = r.files
        /\ expert_op' = ExpertOp("update", user_id, tag, data, r.ok)

\* DELETE /experts/user/{tag}
delete_user_expert_route(user_id, tag) ==
    LET r == delete_user_expert(expert_files, user_id, tag)
    IN  /\ expert_files' = r.files
        /\ expert_op' = ExpertOp("delete", user_id, tag, <<>>, r.ok)

ExpertStoreNext ==
    \/ \E user_id \in StoreUsers, data \in ExpertData : add_user_expert_route(user_id, data)
    \/ \E user_id \in StoreUsers, tag \in {"x", " x", "y", "creative"}, data \in ExpertData :
          update_user_expert_route(user_id, tag, data)
    \/ \E user_id \in StoreUsers, tag \in {"x", " x", "y", "creative"} :
          delete_user_expert_route(user_id, tag)

ExpertStoreSpecNext == ExpertStoreNext /\ UNCHANGED <<core_vars, round_vars, sse, cron_vars, cm_vars, inject, xc_vars, br_vars, st_vars>>

ExpertStoreSpec == Init /\ [][ExpertStoreSpecNext]_vars

(***************************************************************************)
(* Claims about the custom experts                                         *)
(***************************************************************************)
TagsOf(list) == [i \in 1 .. Len(list) |-> list[i].tag]

NoDuplicates(seq) == \A i, j \in 1 .. Len(seq) : seq[i] = seq[j] => i = j

\* C24: the tags of the experts a user sees are pairwise different; an add
\* whose tag is already a custom tag of the user or a built-in tag is
\* rejected and leaves every file as it was; an update changes no tag.
C24_UniqueTags ==
    /\ [](\A u \in StoreUsers : NoDuplicates(TagsOf(get_all_experts(expert_files, u))))
    /\ [][/\ (/\ expert_op'.op = "add"
              /\ \/ has_tag(expert_files[user_experts_path(expert_op'.user_id)], expert_op'.tag)
                 \/ has_tag(EXPERT_CONFIGS, expert_op'.tag))
             => (~expert_op'.ok /\ expert_files' = expert_files)
          /\ expert_op'.op = "update"
             => \A path \in StorePaths :
                   TagsOf(expert_files'[path]) = TagsOf(expert_files[path])]_vars

\* C24 witness: an add with a built-in tag has just been rejected for a user
\* who holds two custom experts
C24_Witness ==
    /\ expert_op.op = "add" /\ expert_op.tag = "creative" /\ ~expert_op.ok
    /\ Len(expert_files[user_experts_path(expert_op.user_id)]) = 2

(***************************************************************************)
(* SseSpec: one streamed chunk from _stream_worker to the page             *)
(***************************************************************************)
\* _stream_worker: an on_chat_model_stream event with content
sse_put(content) ==
    /\ sse.pc \in {"idle", "shown"}
    /\ sse' = [pc |-> "sent", content |-> content,
               wire |-> sse_frame(sse_escape(content)), text |-> ""]

\* the page reads the frame and appends the decoded text
sse_read ==
    /\ sse.pc = "sent"
    /\ sse' = [sse EXCEPT !.pc = "shown", !.text = sse_read_line(first_line(sse.wire))]

SseNext ==
    \/ \E content \in Payloads : sse_put(content)
    \/ sse_read

SseSpecNext == SseNext /\ UNCHANGED <<core_vars, round_vars, expert_vars, cron_vars, cm_vars, inject, xc_vars, br_vars, st_vars>>

SseSpec == Init /\ [][SseSpecNext]_vars

\* C25: the text the page shows for a chunk is the chunk's content.
C25_RoundTrip == sse.pc = "shown" => sse.text = sse.content


(***************************************************************************)
(* CronSpec: src/time.py, the scheduler process, and the agent's           *)
(* /system_trigger endpoint that its firings post to.                      *)
(*   cron_http pc: none, sent (request on its way), answered, turn (the    *)
(*   graph run started by an accepted request is running), lost            *)
(***************************************************************************)
\* POST /tasks: CronTask has user_id, cron and text; set_in records the
\* session whose add_alarm call created the job, which the request and the
\* job do not carry
add_task(user_id, text, set_in, cron_ok) ==
    /\ cron_count.jobs < MaxJobs
    /\ IF cron_ok
       THEN /\ cron_jobs' = (cron_count.jobs + 1 :>
                                [user_id |-> user_id, text |-> text, set_in |-> set_in])
                            @@ cron_jobs
            /\ cron_count' = [cron_count EXCEPT !.jobs = @ + 1]
       ELSE UNCHANGED <<cron_jobs, cron_count>>
    /\ UNCHANGED <<cron_http, cron_threads>>

\* DELETE /tasks/{task_id}
delete_task(task_id) ==
    /\ task_id \in DOMAIN cron_jobs
    /\ cron_jobs' = [id \in DOMAIN cron_jobs \ {task_id} |-> cron_jobs[id]]
    /\ UNCHANGED <<cron_http, cron_threads, cron_count>>

\* the request body and headers that trigger_agent sends: json={"user_id",
\* "text"}, no header; SystemTriggerRequest fills session_id with "default"
trigger_request(job) ==
    [pc |-> "sent", sender |-> "cron", user_id |-> job.user_id, text |-> job.text,
     session_id |-> "default", token |-> "", status |-> 0]

\* a job fires: trigger_agent posts to AGENT_URL
trigger_agent(task_id) ==
    /\ task_id \in DOMAIN cron_jobs
    /\ cron_http.pc \in {"none", "answered", "lost"}
    /\ cron_count.answered < MaxTriggers
    /\ cron_http' = trigger_request(cron_jobs[task_id])
    /\ UNCHANGED <<cron_jobs, cron_threads, cron_count>>

\* another internal service posts to /system_trigger with its header
internal_post(user_id, text, session_id, token) ==
    /\ cron_http.pc \in {"none", "answered", "lost"}
    /\ cron_count.answered < MaxTriggers
    /\ cron_http' = [pc |-> "sent", sender |-> "internal", user_id |-> user_id,
                     text |-> text, session_id |-> session_id, token |-> token,
                     status |-> 0]
    /\ UNCHANGED <<cron_jobs, cron_threads, cron_count>>

\* system_trigger: 403 from verify_internal_token, or the graph run is
\* started with the user message and "received" is returned
cron_system_trigger ==
    /\ cron_http.pc = "sent"
    /\ cron_count' = [cron_count EXCEPT !.answered = @ + 1]
    /\ IF verify_internal_token(cron_http.token)
       THEN /\ cron_http' = [cron_http EXCEPT !.pc = "turn", !.status = 200]
            /\ cron_threads' =
                  [cron_threads EXCEPT
                      ![ThreadId(cron_http.user_id, cron_http.session_id)] =
                          Append(@, [kind |-> "human", text |-> cron_http.text])]
       ELSE /\ cron_http' = [cron_http EXCEPT !.pc = "answered", !.status = 403]
            /\ UNCHANGED cron_threads
    /\ UNCHANGED cron_jobs

\* the agent does not answer within the 10 s timeout: logged, no retry
cron_post_failed ==
    /\ cron_http.pc = "sent"
    /\ cron_http' = [cron_http EXCEPT !.pc = "lost"]
    /\ cron_count' = [cron_count EXCEPT !.answered = @ + 1]
    /\ UNCHANGED <<cron_jobs, cron_threads>>

\* the graph run of an accepted trigger appends the assistant's reply
cron_turn_reply ==
    /\ cron_http.pc = "turn"
    /\ cron_threads' =
          [cron_threads EXCEPT
              ![ThreadId(cron_http.user_id, cron_http.session_id)] =
                  Append(@, [kind |-> "ai", text |-> "reply"])]
    /\ cron_http' = [cron_http EXCEPT !.pc = "answered"]
    /\ UNCHANGED <<cron_jobs, cron_count>>

CronNext ==
    \/ \E user_id \in CronUsers, text \in {"wake", "report"}, set_in \in CronSessions,
          cron_ok \in BOOLEAN : add_task(user_id, text, set_in, cron_ok)
    \/ \E task_id \in 1 .. MaxJobs : delete_task(task_id)
    \/ \E task_id \in 1 .. MaxJobs : trigger_agent(task_id)
    \/ \E user_id \in CronUsers, session_id \in CronSessions, token \in Tokens :
          internal_post(user_id, "ping", session_id, token)
    \/ cron_system_trigger
    \/ cron_post_failed
    \/ cron_turn_reply

CronSpecNext == CronNext /\ UNCHANGED <<core_vars, round_vars, expert_vars, sse, cm_vars, inject, xc_vars, br_vars, st_vars>>

CronSpec == Init /\ [][CronSpecNext]_vars

\* C26: every request a firing sends to the agent carries the internal
\* token and is accepted, so that the job's thread gains the message.
C26_FiringAccepted ==
    (cron_http.sender = "cron" /\ cron_http.pc \in {"turn", "answered"}) =>
        /\ cron_http.token = INTERNAL_TOKEN
        /\ cron_http.status = 200
        /\ cron_threads[ThreadId(cron_http.user_id, cron_http.session_id)] # <<>>

(***************************************************************************)
(* CallModelSpec: the chatbot node of the graph and what it gives the      *)
(* model.  One graph run is followed at a time; a request that arrives     *)
(* while the run is in the tool node starts the next run from the thread   *)
(* as checkpointed after the chatbot node.                                 *)
(***************************************************************************)
\* /ask, /ask_stream, /system_trigger: the graph is started with the new
\* HumanMessage appended to the thread
cm_request(user_id, enabled, content, is_system) ==
    /\ cm_turn.pc \in {"idle", "tools"}
    /\ cm_count < MaxTurns
    /\ is_system => content = TextContent("hi")
    /\ cm_messages' = [cm_messages EXCEPT ![user_id] =
                          Append(@, CmMessage("human", content, <<>>, 0))]
    /\ cm_turn' = [pc |-> "chatbot", user_id |-> user_id, enabled |-> enabled,
                   is_system |-> is_system, at |-> Len(cm_messages[user_id]) + 1,
                   calls_made |-> 0]
    /\ cm_count' = cm_count + 1
    /\ UNCHANGED <<cm_input, cm_cache, cm_prev>>

\* _call_model up to llm.ainvoke
call_model ==
    /\ cm_turn.pc = "chatbot"
    /\ LET user_id == cm_turn.user_id
           notice == tool_status_notice(cm_cache[user_id], cm_turn.enabled)
       IN  /\ cm_input' =
                 [sanitized |-> sanitize_messages(cm_messages[user_id], {}),
                  messages |-> input_messages(cm_messages[user_id], cm_turn.is_system, notice),
                  notice |-> notice]
           /\ cm_cache' = [cm_cache EXCEPT ![user_id] = ToolState(current_enabled(cm_turn.enabled))]
           /\ cm_prev' = [cm_prev EXCEPT ![user_id] = current_enabled(cm_turn.enabled)]
    /\ cm_turn' = [cm_turn EXCEPT !.pc = "llm"]
    /\ UNCHANGED <<cm_messages, cm_count>>

\* the model's response is appended; with tool-calls the run goes on to the
\* tool node, without them it ends
cm_model_return(with_call) ==
    /\ cm_turn.pc = "llm"
    /\ with_call => cm_turn.calls_made + 1 < MaxModelCalls
    /\ LET user_id == cm_turn.user_id
           calls == IF with_call
                    THEN <<[name |-> "list_files", id |-> Len(cm_messages[user_id]) + 1]>>
                    ELSE <<>>
       IN  cm_messages' = [cm_messages EXCEPT ![user_id] =
                              Append(@, CmMessage("ai", TextContent("reply"), calls, 0))]
    /\ cm_turn' = [cm_turn EXCEPT !.pc = IF with_call THEN "tools" ELSE "idle",
                                  !.calls_made = @ + 1]
    /\ UNCHANGED <<cm_input, cm_cache, cm_prev, cm_count>>

\* the tool node answers the calls of the last message with ToolMessages
cm_tools ==
    /\ cm_turn.pc = "tools"
    /\ LET user_id == cm_turn.user_id
           last_message == cm_messages[user_id][Len(cm_messages[user_id])]
       IN  cm_messages' = [cm_messages EXCEPT ![user_id] =
                              @ \o [j \in 1 .. Len(last_message.calls) |->
                                      CmMessage("tool", TextContent("result"), <<>>,
                                                last_message.calls[j].id)]]
    /\ cm_turn' = [cm_turn EXCEPT !.pc = "chatbot"]
    /\ UNCHANGED <<cm_input, cm_cache, cm_prev, cm_count>>

CallModelNext ==
    \/ \E user_id \in CmUsers, enabled \in CmEnabledChoices, content \in HumanContents,
          is_system \in BOOLEAN : cm_request(user_id, enabled, content, is_system)
    \/ call_model
    \/ \E with_call \in BOOLEAN : cm_model_return(with_call)
    \/ cm_tools

CallModelSpecNext ==
    CallModelNext /\ UNCHANGED <<core_vars, round_vars, expert_vars, sse, cron_vars, inject, xc_vars, br_vars, st_vars>>

CallModelSpec == Init /\ [][CallModelSpecNext]_vars

\* positions of the tool-results in a list of messages that answer call id
Answers(messages, id) ==
    { n \in 1 .. Len(messages) : messages[n].kind = "tool" /\ messages[n].id = id }

\* C27: in a model call the sanitized history holds no assistant message
\* with a tool-call that no later tool-result answers (no caller of the
\* graph supplies external tools), and the sanitized history is the thread
\* without the messages dropped from its end.
C27_SanitizedComplete ==
    cm_turn.pc = "llm" =>
        LET sanitized == cm_input.sanitized
            thread == cm_messages[cm_turn.user_id]
        IN  /\ Len(sanitized) <= Len(thread)
            /\ sanitized = SubSeq(thread, 1, Len(sanitized))
            /\ \A j \in 1 .. Len(sanitized) :
                  sanitized[j].kind = "ai" =>
                      \A c \in 1 .. Len(sanitized[j].calls) :
                          \E n \in Answers(sanitized, sanitized[j].calls[c].id) : n > j

\* the content was passed as it is in the thread, with at most the notice
\* in front of it
Intact(original, passed) ==
    /\ passed.list
    /\ passed.parts \in {original.parts, <<"notice">> \o original.parts}

\* C28: in every model call of a turn the multimodal content of the turn's
\* user message reaches the model intact, and every older user message with
\* multimodal parts reaches it as text.
C28_CurrentTurnIntact ==
    cm_turn.pc = "llm" =>
        LET thread == cm_messages[cm_turn.user_id]
            passed == cm_input.messages
        IN  /\ Len(passed) >= cm_turn.at
            /\ thread[cm_turn.at].content.list =>
                  Intact(thread[cm_turn.at].content, passed[cm_turn.at].content)
            /\ \A j \in 1 .. cm_turn.at - 1 :
                  (thread[j].kind = "human" /\ thread[j].content.list) =>
                      /\ passed[j].kind = "human"
                      /\ ~passed[j].content.list

\* C29: a model call carries the notice only when the turn's enabled set
\* differs from the set of the user's previous model call (all tools before
\* the first), and it leaves the user's cached set equal to the set it used.
C29_NoticeOnlyOnChange ==
    [][(cm_turn.pc = "chatbot" /\ cm_turn'.pc = "llm") =>
          LET user_id == cm_turn.user_id
              used == IF cm_turn.enabled.restricted
                      THEN cm_turn.enabled.names ELSE internal_tool_names
          IN  /\ cm_input'.notice => used # cm_prev[user_id]
              /\ cm_cache'[user_id] = ToolState(used)
              /\ \A other \in CmUsers \ {user_id} : cm_cache'[other] = cm_cache[other]]_vars

\* C29 witness: the second turn of a user restricts the tools as the first
\* did and its model call carries no notice.
C29_Witness ==
    /\ cm_turn.pc = "llm"
    /\ cm_turn.enabled = Restrict({"list_files"})
    /\ cm_turn.at > 1
    /\ cm_count = 2
    /\ ~cm_input.notice

(***************************************************************************)
(* InjectSpec: one tool-call from the assistant message through            *)
(* UserAwareToolNode to the provider's function.                           *)
(***************************************************************************)
USER_INJECTED_TOOLS ==
    { "list_files", "read_file", "write_file", "append_file", "delete_file",
      "run_command", "run_python_code",
      "add_alarm", "list_alarms", "delete_alarm",
      "set_push_key", "send_push_notification", "get_push_status",
      "set_public_url", "get_public_url", "clear_public_url" }

\* the tools the model calls here: a push tool, the alarm tools and a tool
\* outside USER_INJECTED_TOOLS
InjectTools == {"send_push_notification", "add_alarm", "list_alarms", "list_oasis_topics"}

\* the parameters of the provider's function, of those the calls carry
Params(name) ==
    IF name = "send_push_notification" THEN {"username"}
    ELSE IF name = "add_alarm" THEN {"user_id"}
    ELSE IF name = "list_oasis_topics" THEN {"username"}
    ELSE {}

InjectUsers == {"u1", "u2"}

InjectSessions == {"default", "s2"}

\* the arguments a model may put in a call
ModelArgs ==
    [username : {Absent} \cup InjectUsers, user_id : {Absent} \cup InjectUsers,
     session_id : {Absent, "s2"}]

\* tc["args"]["username"] = user_id; tc["args"]["session_id"] = session_id
inject_args(tc, user_id, session_id) ==
    [username   |-> IF tc.name \in USER_INJECTED_TOOLS
                    THEN (IF user_id = "" THEN "anonymous" ELSE user_id)
                    ELSE tc.args.username,
     user_id    |-> tc.args.user_id,
     session_id |-> IF tc.name = "add_alarm"
                    THEN (IF session_id = "" THEN "default" ELSE session_id)
                    ELSE tc.args.session_id]

\* the model's response with one tool-call is the last message of the thread
inject_model_call(user_id, session_id, enabled, name, args) ==
    /\ inject.pc \in {"idle", "done"}
    /\ name = "add_alarm" => args.user_id # Absent
    /\ inject' = [NoInject EXCEPT !.pc = "tools", !.user_id = user_id,
                                  !.session_id = session_id, !.enabled = enabled,
                                  !.original = [name |-> name, args |-> args],
                                  !.message = [name |-> name, args |-> args]]

\* UserAwareToolNode.__call__: a blocked call is answered at once, an
\* allowed call is changed in a deep copy of the message and dispatched
inject_tool_node ==
    /\ inject.pc = "tools"
    /\ IF IsBlocked(inject.message, inject.enabled)
       THEN inject' = [inject EXCEPT !.pc = "done", !.outcome = "blocked"]
       ELSE inject' = [inject EXCEPT
                          !.pc = "sent",
                          !.dispatched = inject_args(inject.message, inject.user_id,
                                                     inject.session_id)]

\* the provider's function runs with the arguments that are parameters of
\* it; a provider that validates the call against its signature refuses
\* one with other arguments
provider_call(strict) ==
    /\ inject.pc = "sent"
    /\ LET params == Params(inject.message.name)
           extra == { k \in DOMAIN inject.dispatched :
                         inject.dispatched[k] # Absent /\ k \notin params }
       IN  IF strict /\ extra # {}
           THEN inject' = [inject EXCEPT !.pc = "done", !.outcome = "rejected"]
           ELSE inject' = [inject EXCEPT
                              !.pc = "done", !.outcome = "ran",
                              !.received = [k \in DOMAIN inject.dispatched |->
                                              IF k \in params THEN inject.dispatched[k]
                                              ELSE Absent]]

InjectNext ==
    \/ \E user_id \in InjectUsers, session_id \in InjectSessions,
          enabled \in {NoRestriction, Restrict({"add_alarm"})},
          name \in InjectTools, args \in ModelArgs :
          inject_model_call(user_id, session_id, enabled, name, args)
    \/ inject_tool_node
    \/ \E strict \in BOOLEAN : provider_call(strict)

InjectSpecNext ==
    InjectNext /\ UNCHANGED <<core_vars, round_vars, expert_vars, sse, cron_vars, cm_vars, xc_vars, br_vars, st_vars>>

InjectSpec == Init /\ [][InjectSpecNext]_vars

\* C30: a dispatched call of a user-scoped tool runs at its provider with
\* username equal to the requesting user's id, add_alarm with the turn's
\* session_id too, and the assistant message of the thread keeps the
\* arguments the model gave.
C30_ProviderGetsUser ==
    (inject.pc = "done" /\ inject.outcome = "ran"
        /\ inject.message.name \in USER_INJECTED_TOOLS) =>
        /\ inject.received.username = inject.user_id
        /\ inject.message.name = "add_alarm" =>
              inject.received.session_id = inject.session_id
        /\ inject.message = inject.original

(***************************************************************************)
(* Errors of a discussion run (OasisSpec)                                  *)
(***************************************************************************)
\* a call of the run of topic t raised: an expert's backend in the last
\* round, the summarizer, or the code of run() itself
RunRaised(t) ==
    \/ discussions[t].conclusion \in {"summary_failed", "run_error"}
    \/ \E e \in Experts : experts[e].applied # <<>> /\ experts[e].applied.kind = "error"

Fence == "~~~"

endswith(s, suffix) ==
    Len(s) >= Len(suffix) /\ SubSeq(s, Len(s) - Len(suffix) + 1, Len(s)) = suffix

\* str.strip(): blanks and newlines
RECURSIVE strip_ws(_)
strip_ws(s) ==
    IF s = "" THEN s
    ELSE IF SubSeq(s, 1, 1) \in {" ", "\n"} THEN strip_ws(SubSeq(s, 2, Len(s)))
    ELSE IF SubSeq(s, Len(s), Len(s)) \in {" ", "\n"} THEN strip_ws(SubSeq(s, 1, Len(s) - 1))
    ELSE s

\* raw.split("\n", 1)[-1]
RECURSIVE after_first_newline(_, _)
after_first_newline(s, rest) ==
    IF rest = "" THEN s
    ELSE IF SubSeq(rest, 1, 1) = "\n" THEN SubSeq(rest, 2, Len(rest))
    ELSE after_first_newline(s, SubSeq(rest, 2, Len(rest)))

\* raw.rsplit(fence, 1)[0], fence being three backquotes
RECURSIVE before_last_fence(_, _)
before_last_fence(s, n) ==
    IF n < 3 THEN s
    ELSE IF SubSeq(s, n - 2, n) = Fence THEN SubSeq(s, 1, n - 3)
    ELSE before_last_fence(s, n - 1)

\* _parse_expert_response up to json.loads
unfence(raw) ==
    LET r1 == strip_ws(raw)
        r2 == IF startswith(r1, Fence) THEN after_first_newline(r1, r1) ELSE r1
        r3 == IF endswith(r2, Fence) THEN before_last_fence(r2, Len(r2)) ELSE r2
    IN  strip_ws(r3)

ObjectText == "{\"content\": \"x\"}"

RECURSIVE Repeat(_, _)
Repeat(s, n) ==
    IF n = 0 THEN ""
    ELSE LET half == Repeat(s, n \div 2)
         IN  IF n % 2 = 0 THEN half \o half ELSE half \o half \o s

\* 302 characters that are not JSON
LongText == Repeat("ab", 151)

\* texts a backend returns
RawReplies ==
    { ObjectText,
      Fence \o "json\n" \o ObjectText \o "\n" \o Fence,
      Fence \o ObjectText \o Fence,
      "{}", "42", "[]", "hello", " ", LongText }

\* json.loads on the texts above: an object with or without "content",
\* another JSON value, or JSONDecodeError
json_loads(text) ==
    IF text = ObjectText THEN [valid |-> TRUE, object |-> TRUE, content |-> "x"]
    ELSE IF text = "{}" THEN [valid |-> TRUE, object |-> TRUE, content |-> "(no content)"]
    ELSE IF text \in {"42", "[]"} THEN [valid |-> TRUE, object |-> FALSE, content |-> ""]
    ELSE [valid |-> FALSE, object |-> FALSE, content |-> ""]

\* s[:n]
Truncate(s, n) == SubSeq(s, 1, IF Len(s) < n THEN Len(s) ELSE n)

\* participate from the backend's text on: _parse_expert_response and
\* _apply_response inside the try, with its two except branches
participate_text(forum, expert_name, text, others) ==
    LET parsed == json_loads(unfence(text))
    IN  IF ~parsed.valid
        THEN publish(forum, expert_name, Truncate(strip_ws(text), 300), 0)
        ELSE IF ~parsed.object
        THEN forum
        ELSE apply_response([content |-> parsed.content, reply_to |-> 0, votes |-> <<>>],
                            expert_name, forum, others)

PostIds(posts) == { posts[j].id : j \in 1 .. Len(posts) }

\* DiscussionEngine.__init__: the experts are built for one backend
xc_create(use_bot_session) ==
    /\ xc_backend = "none"
    /\ xc_backend' = IF use_bot_session THEN "bot_session" ELSE "direct_llm"
    /\ UNCHANGED <<xc_forum, xc_experts, xc_threads, xc_last>>

\* participate up to the await of the backend call.  A BotSessionExpert
\* sends everything with the system instruction the first time and the
\* posts not in _seen_post_ids later; an ExpertAgent sends everything
xc_participate(e) ==
    /\ xc_backend # "none"
    /\ xc_experts[e].pc = "idle"
    /\ xc_experts[e].calls < MaxExpertCalls
    /\ LET others == browse(xc_forum, e, TRUE)
           new_posts == SelectSeq(others, LAMBDA p : p.id \notin xc_experts[e].seen_post_ids)
           first == ~xc_experts[e].initialized
       IN  xc_experts' =
              [xc_experts EXCEPT
                  ![e] = [pc |-> "call",
                          initialized |-> IF xc_backend = "bot_session" THEN TRUE ELSE @.initialized,
                          seen_post_ids |-> IF xc_backend = "bot_session"
                                            THEN @.seen_post_ids \cup PostIds(others)
                                            ELSE @.seen_post_ids,
                          others |-> others,
                          sent |-> IF xc_backend = "bot_session" /\ ~first
                                   THEN PostIds(new_posts) ELSE PostIds(others),
                          system |-> xc_backend = "bot_session" /\ first,
                          mark |-> xc_forum.counter,
                          calls |-> @.calls + 1]]
    /\ UNCHANGED <<xc_backend, xc_forum, xc_threads, xc_last>>

\* the agent session has taken the request into its thread
thread_received(e) ==
    [xc_threads EXCEPT ![e].posts = @ \cup xc_experts[e].sent,
                       ![e].system = @ \/ xc_experts[e].system]

\* the backend returns a text (status 200 for a bot session)
xc_reply(e, raw) ==
    /\ xc_experts[e].pc = "call"
    /\ xc_forum' = participate_text(xc_forum, e, raw, xc_experts[e].others)
    /\ xc_threads' = IF xc_backend = "bot_session" THEN thread_received(e) ELSE xc_threads
    /\ xc_experts' = [xc_experts EXCEPT ![e].pc = "idle"]
    /\ xc_last' = [expert |-> e, outcome |-> "reply", raw |-> raw,
                   before |-> xc_forum.posts, after |-> xc_forum'.posts]
    /\ UNCHANGED xc_backend

\* the agent answers with a status other than 200: logged, return
xc_http_error(e, reached) ==
    /\ xc_backend = "bot_session"
    /\ xc_experts[e].pc = "call"
    /\ xc_threads' = IF reached THEN thread_received(e) ELSE xc_threads
    /\ xc_experts' = [xc_experts EXCEPT ![e].pc = "idle"]
    /\ xc_last' = [expert |-> e, outcome |-> "http_error", raw |-> "",
                   before |-> xc_forum.posts, after |-> xc_forum.posts]
    /\ UNCHANGED <<xc_backend, xc_forum>>

\* the backend call raises, caught by "except Exception": the 120 s
\* timeout of the client, or a connection that could not be made
xc_raised(e, outcome, reached) ==
    /\ xc_experts[e].pc = "call"
    /\ outcome = "timeout" => xc_backend = "bot_session"
    /\ reached => (xc_backend = "bot_session" /\ outcome = "timeout")
    /\ xc_threads' = IF reached THEN thread_received(e) ELSE xc_threads
    /\ xc_experts' = [xc_experts EXCEPT ![e].pc = "idle"]
    /\ xc_last' = [expert |-> e, outcome |-> outcome, raw |-> "",
                   before |-> xc_forum.posts, after |-> xc_forum.posts]
    /\ UNCHANGED <<xc_backend, xc_forum>>

ExpertCallNext ==
    \/ \E use_bot_session \in BOOLEAN : xc_create(use_bot_session)
    \/ \E e \in Experts : xc_participate(e)
    \/ \E e \in Experts, raw \in RawReplies : xc_reply(e, raw)
    \/ \E e \in Experts, reached \in BOOLEAN : xc_http_error(e, reached)
    \/ \E e \in Experts, outcome \in {"timeout", "network"}, reached \in BOOLEAN :
          xc_raised(e, outcome, reached)

ExpertCallSpecNext ==
    ExpertCallNext /\ UNCHANGED <<core_vars, round_vars, expert_vars, sse, cron_vars,
                                   cm_vars, inject, br_vars, st_vars>>

ExpertCallSpec == Init /\ [][ExpertCallSpecNext]_vars

\* the invocation that ended last appended exactly one post by its expert
OnePostBy(content) ==
    /\ Len(xc_last.after) = Len(xc_last.before) + 1
    /\ SubSeq(xc_last.after, 1, Len(xc_last.before)) = xc_last.before
    /\ xc_last.after[Len(xc_last.after)].author = xc_last.expert
    /\ xc_last.after[Len(xc_last.after)].content = content

\* C32: an invocation whose backend returned a text has published exactly
\* one post by its expert, holding the declared content when the unfenced
\* text is JSON and the first 300 characters of the text otherwise; no
\* invocation has published more than one post.
C32_OnePostPerReply ==
    /\ xc_last.outcome = "reply" =>
          OnePostBy(IF json_loads(unfence(xc_last.raw)).valid
                    THEN json_loads(unfence(xc_last.raw)).content
                    ELSE Truncate(strip_ws(xc_last.raw), 300))
    /\ Len(xc_last.after) <= Len(xc_last.before) + 1

\* C33: a bot-session invocation that ran into its 120 s timeout has
\* published one post by its expert with the "no response in time" text.
C33_TimeoutPost ==
    (xc_last.outcome = "timeout" /\ xc_backend = "bot_session") =>
        OnePostBy("(no response in time)")

\* C34: a bot-session expert sends all the other authors' posts and the
\* system instruction in its first call, in a later call exactly the other
\* authors' posts published since its previous call, and every post it
\* leaves out is in its thread.
C34_DeltaContext ==
    xc_backend = "bot_session" =>
        \A e \in Experts :
            xc_experts[e].pc = "call" =>
                LET others == PostIds(xc_experts[e].others)
                IN  IF xc_experts[e].calls = 1
                    THEN xc_experts[e].sent = others /\ xc_experts[e].system
                    ELSE /\ \E earlier \in 0 .. xc_forum.counter :
                               xc_experts[e].sent = { id \in others : id > earlier }
                         /\ ~xc_experts[e].system
                         /\ others \ xc_experts[e].sent \subseteq xc_threads[e].posts

(***************************************************************************)
(* BridgeSpec: mainagent.py, /oasis/ask and its read offsets.  A forum     *)
(* outside the agent keeps the history of a session and sends all of it    *)
(* with each call; an entry is named by the forum's generation (raised     *)
(* when the forum restarts with an empty history) and its index.           *)
(***************************************************************************)
BridgeHistory(forum) == [i \in 1 .. forum.len |-> [gen |-> forum.gen, idx |-> i]]

\* the forum of a session gains an entry
br_forum_post(pair) ==
    /\ br_forums[pair].len < MaxBridgeHistory
    /\ br_forums' = [br_forums EXCEPT ![pair].len = @ + 1]
    /\ UNCHANGED <<br_offsets, br_threads, br_call, br_last, br_fresh, br_count>>

\* the forum restarts: its history starts again from nothing
br_forum_restart(pair) ==
    /\ br_forums[pair].gen = 0
    /\ br_forums[pair].len > 0
    /\ br_forums' = [br_forums EXCEPT ![pair] = [gen |-> 1, len |-> 0]]
    /\ UNCHANGED <<br_offsets, br_threads, br_call, br_last, br_fresh, br_count>>

\* oasis_ask up to the await of agent_app.ainvoke, or to its return when
\* there is nothing new
oasis_ask(pair) ==
    /\ br_call.pc = "idle"
    /\ br_count < MaxBridgeCalls
    /\ br_count' = br_count + 1
    /\ br_fresh' = br_fresh \ {pair}
    /\ LET key == OffsetKey(pair[1], pair[2])
           history == BridgeHistory(br_forums[pair])
           last_idx == br_offsets[key]
           new_messages == SubSeq(history, last_idx + 1, Len(history))
           call == [pc |-> "invoke", pair |-> pair, status |-> "none", history |-> history,
                    sent |-> new_messages, fresh |-> pair \in br_fresh]
       IN  IF new_messages = <<>> /\ last_idx > 0
           THEN /\ br_last' = [call EXCEPT !.pc = "idle", !.status = "skipped"]
                /\ UNCHANGED <<br_offsets, br_call>>
           ELSE /\ br_offsets' = [br_offsets EXCEPT ![key] = Len(history)]
                /\ br_call' = call
                /\ UNCHANGED br_last
    /\ UNCHANGED <<br_threads, br_forums>>

\* ainvoke returns, runs into the 120 s timeout, or raises; stored: the run
\* had saved its input message to the thread
oasis_ask_done(status, stored) ==
    /\ br_call.pc = "invoke"
    /\ status \in {"success", "timeout"} => stored
    /\ br_threads' = IF stored
                     THEN [br_threads EXCEPT ![br_call.pair] = @ \o br_call.sent]
                     ELSE br_threads
    /\ br_last' = [br_call EXCEPT !.pc = "idle", !.status = status]
    /\ br_call' = NoBridgeCall
    /\ UNCHANGED <<br_offsets, br_forums, br_fresh, br_count>>

\* /delete_session for the bridge session of the pair (all: with an empty
\* session_id, every session of the user)
br_delete_session(pair, all) ==
    /\ br_call.pc = "idle"
    /\ LET user_id == pair[1]
           thread_id == ThreadId(user_id, "oasis_" \o pair[2])
           gone == IF all
                   THEN { q \in BridgePairs : like(user_id \o "#%", BridgeThread(q)) }
                   ELSE { q \in BridgePairs : BridgeThread(q) = thread_id }
       IN  /\ br_threads' = [q \in BridgePairs |-> IF q \in gone THEN <<>> ELSE br_threads[q]]
           /\ br_offsets' =
                 [k \in BridgeKeys |->
                     IF (all /\ startswith(k, user_id \o "#")) \/ (~all /\ k = thread_id)
                     THEN 0 ELSE br_offsets[k]]
           /\ br_fresh' = br_fresh \cup gone
    /\ br_last' = NoBridgeCall
    /\ UNCHANGED <<br_forums, br_call, br_count>>

BridgeNext ==
    \/ \E pair \in BridgePairs : br_forum_post(pair)
    \/ \E pair \in BridgePairs : br_forum_restart(pair)
    \/ \E pair \in BridgePairs : oasis_ask(pair)
    \/ \E status \in {"success", "timeout", "error"}, stored \in BOOLEAN :
          oasis_ask_done(status, stored)
    \/ \E pair \in BridgePairs, all \in BOOLEAN : br_delete_session(pair, all)

BridgeSpecNext ==
    BridgeNext /\ UNCHANGED <<core_vars, round_vars, expert_vars, sse, cron_vars,
                               cm_vars, inject, xc_vars, st_vars>>

BridgeSpec == Init /\ [][BridgeSpecNext]_vars

\* the entries of the history a call carried that the thread was given
GivenOf(call) ==
    SelectSeq(br_threads[call.pair],
              LAMBDA entry : \E i \in 1 .. Len(call.history) : call.history[i].gen = entry.gen)

\* C35: when a call for a session has ended, the agent's thread has been
\* given each entry of the history the caller holds exactly once and in
\* order, and the stored offset is the number of entries given.
C35_DeliveredOnce ==
    (br_call.pc = "idle" /\ br_last.status # "none") =>
        /\ GivenOf(br_last) = br_last.history
        /\ br_offsets[OffsetKey(br_last.pair[1], br_last.pair[2])] = Len(GivenOf(br_last))

\* C36: the first /oasis/ask for a bridge session after the session was
\* deleted sends the caller's full history.
C36_DeletedSessionFullHistory ==
    /\ (br_call.pc = "invoke" /\ br_call.fresh) => br_call.sent = br_call.history
    /\ (br_last.status = "skipped") => ~br_last.fresh

(***************************************************************************)
(* StreamSpec: oasis/server.py, GET /topics/{id}/stream.  The engine's     *)
(* writes to the forum (round counter, posts, terminal status) interleave  *)
(* with the polls of event_generator, which sleeps 1 s between them.       *)
(***************************************************************************)
StreamEvent(kind, n) == [kind |-> kind, n |-> n]

\* run(): status discussing, then the rounds
st_round ==
    /\ st_forum.status \in {"pending", "discussing"}
    /\ st_forum.current_round < st_forum.max_rounds
    /\ st_forum' = [st_forum EXCEPT !.status = "discussing", !.current_round = @ + 1]
    /\ UNCHANGED <<st_gen, st_out>>

\* an expert publishes during a round
st_publish(author) ==
    /\ st_forum.status = "discussing"
    /\ st_forum.counter < MaxStreamPosts
    /\ st_forum' = publish(st_forum, author, "x", 0)
    /\ UNCHANGED <<st_gen, st_out>>

\* run() ends: conclusion and terminal status
st_end(status) ==
    /\ st_forum.status = "discussing"
    /\ st_forum' = [st_forum EXCEPT !.status = status, !.conclusion = "summary"]
    /\ UNCHANGED <<st_gen, st_out>>

\* GET /topics/{id}/stream: the generator is created
stream_topic ==
    /\ st_gen.pc = "none"
    /\ st_gen' = [st_gen EXCEPT !.pc = "loop"]
    /\ UNCHANGED <<st_forum, st_out>>

\* what follows the loop: the conclusion, if any, and [DONE]
final_events(forum, last_count) ==
    (IF forum.conclusion # "None" THEN <<StreamEvent("conclusion", 0)>> ELSE <<>>)
    \o <<StreamEvent("done", 0)>>

\* one test of the while condition: an iteration up to its sleep, or the
\* end of the generator
event_generator_step ==
    /\ st_gen.pc = "loop"
    /\ IF st_forum.status \in {"pending", "discussing"}
       THEN LET posts == browse(st_forum, "", FALSE)
                banner == IF st_forum.current_round > st_gen.last_round
                          THEN <<StreamEvent("banner", st_forum.current_round)>> ELSE <<>>
                news == IF Len(posts) > st_gen.last_count
                        THEN [j \in 1 .. Len(posts) - st_gen.last_count |->
                                StreamEvent("post", posts[st_gen.last_count + j].id)]
                        ELSE <<>>
            IN  /\ st_out' = st_out \o banner \o news
                /\ st_gen' = [pc |-> "sleep",
                              last_count |-> IF Len(posts) > st_gen.last_count
                                             THEN Len(posts) ELSE st_gen.last_count,
                              last_round |-> IF st_forum.current_round > st_gen.last_round
                                             THEN st_forum.current_round ELSE st_gen.last_round]
       ELSE /\ st_out' = st_out \o final_events(st_forum, st_gen.last_count)
            /\ st_gen' = [st_gen EXCEPT !.pc = "done"]
    /\ UNCHANGED st_forum

\* asyncio.sleep(1) returns
event_generator_wake ==
    /\ st_gen.pc = "sleep"
    /\ st_gen' = [st_gen EXCEPT !.pc = "loop"]
    /\ UNCHANGED <<st_forum, st_out>>

StreamNext ==
    \/ st_round
    \/ \E author \in Experts : st_publish(author)
    \/ \E status \in {"concluded", "error"} : st_end(status)
    \/ stream_topic
    \/ event_generator_step
    \/ event_generator_wake

StreamSpecNext ==
    StreamNext /\ UNCHANGED <<core_vars, round_vars, expert_vars, sse, cron_vars,
                               cm_vars, inject, xc_vars, br_vars>>

StreamSpec == Init /\ [][StreamSpecNext]_vars

EventsOf(kind) == SelectSeq(st_out, LAMBDA ev : ev.kind = kind)

\* C37: when [DONE] has been sent on a stream that saw the topic in
\* discussion, the stream holds each post published to the topic before its
\* terminal status exactly once and in id order, and it ends with the
\* conclusion and [DONE].
C37_StreamComplete ==
    (st_gen.pc = "done" /\ st_gen.last_round > 0) =>
        /\ EventsOf("post") =
              [j \in 1 .. Len(st_forum.posts) |-> StreamEvent("post", st_forum.posts[j].id)]
        /\ Len(st_out) >= 2
        /\ st_out[Len(st_out) - 1] = StreamEvent("conclusion", 0)
        /\ st_out[Len(st_out)] = StreamEvent("done", 0)

\* C38: custom experts are per user: an add, update or delete by user u
\* leaves what every other user u2 lists, and has selected for a topic,
\* as it was.
C38_PerUserExperts ==
    [][\A u2 \in StoreUsers \ {expert_op'.user_id} :
          get_all_experts(expert_files', u2) = get_all_experts(expert_files, u2)]_vars

(***************************************************************************)
(* Claims about the task registry and the partial reply                    *)
(***************************************************************************)
\* the worker of p has been registered (slots, and with them the
\* registrations behind the one lock, are taken in order)
WorkerRegistered(p) == IsStream(procs[p]) /\ procs[p].pc \notin {"idle", "lock_wait", "task_wait"}

\* p is the most recently registered worker of its key
LatestWorker(p) ==
    /\ WorkerRegistered(p)
    /\ \A q \in Procs : (q > p /\ WorkerRegistered(q)) => procs[q].key # procs[p].key

\* C39: while the most recently registered worker of a key is running its
\* turn, the active-task map holds that worker under the key, whatever older
\* workers of the key do.
C39_LatestWorkerRegistered ==
    \A p \in Procs :
        (LatestWorker(p) /\ procs[p].pc \in {"created", "input", "chatbot", "tools"})
        => active_tasks[procs[p].key] = p

Range(seq) == { seq[i] : i \in 1 .. Len(seq) }

IsPartial(m) == m.kind = "ai" /\ m.note = "terminated"

\* C40: a synthetic partial assistant message of a thread is never empty,
\* and none of its text is the text of another message of the thread.
C40_NoTextTwice ==
    \A key \in DOMAIN threads : \A i \in 1 .. Len(threads[key]) :
        IsPartial(threads[key][i])
        => /\ threads[key][i].text # <<>>
           /\ \A j \in 1 .. Len(threads[key]) :
                 j # i => Range(threads[key][j].text) \cap Range(threads[key][i].text) = {}

====
